---- MODULE Spec2Model ----
(***************************************************************************)
(* me_API: a Django REST Framework portfolio API.  Six resources (Profile, *)
(* Education, WorkExperience, Skill, Project, SocialLink) are stored in a  *)
(* relational store and served by generic list/create and detail views     *)
(* guarded by IsAdminUserOrReadOnly.                                       *)
(*                                                                         *)
(* A request is a sequence of store statements.  A create runs in the      *)
(* default autocommit mode: the serializer's validation reads the store,   *)
(* create() resolves the owner by name, then one INSERT is issued, and     *)
(* other requests may run between these statements.  Updates, deletes and  *)
(* reads are modelled as one step each.                                    *)
(***************************************************************************)
EXTENDS Integers, FiniteSets, Sequences, TLC

VARIABLES
    profiles,    \* rows of profile_api.Profile
    education,   \* rows of education_api.Education
    experience,  \* rows of experience_api.WorkExperience
    skills,      \* rows of skills_api.Skill
    projects,    \* rows of projects_api.Project
    links,       \* rows of social_api.SocialLink
    nextId,      \* per table, the next auto-increment primary key
    inflight,    \* create requests between validation and INSERT
    last         \* the most recent response sent to a client

vars == <<profiles, education, experience, skills, projects, links, nextId, inflight, last>>
store == <<profiles, education, experience, skills, projects, links>>
children == <<education, experience, skills, projects, links>>

(***************************************************************************)
(* Bounds of the model.                                                    *)
(***************************************************************************)
MaxProfiles == 2    \* profile primary keys handed out
MaxRecords == 2     \* primary keys handed out per child table
MaxDate == 2        \* dates are 1..MaxDate
MaxInflight == 2    \* requests running concurrently

(***************************************************************************)
(* Values.                                                                 *)
(***************************************************************************)
\* DateField(null=True): the stored NULL, and Python's None from data.get().
NoDate == 0
Dates == 1..MaxDate
\* no primary key: self.instance is None, an owner not yet resolved
NoPk == 0

ProfileNames == {"John", "john", "Jane"}
Emails == {"john@example.com", "jane@example.com"}
SkillNames == {"Python", "python"}
\* a subset of SocialLink.LINK_TYPES
LinkTypes == {"github", "linkedin"}
ProfileIds == 1..MaxProfiles
RecordIds == 1..MaxRecords

\* str.lower() / the __iexact lookup's case folding, on the strings used here.
Lower(s) ==
    CASE s = "John" -> "john"
      [] s = "JOHN" -> "john"
      [] s = "Jo" -> "jo"
      [] s = "Nobody" -> "nobody"
      [] s = "Python" -> "python"
      [] OTHER -> s

\* the characters of the strings used in text filters
Chars(s) ==
    CASE s = "MIT" -> <<"M", "I", "T">>
      [] s = "Oxford" -> <<"O", "x", "f", "o", "r", "d">>
      [] s = "BSc" -> <<"B", "S", "c">>
      [] s = "MSc" -> <<"M", "S", "c">>
      [] s = "IT" -> <<"I", "T">>
      [] s = "mit" -> <<"m", "i", "t">>
      [] s = "or" -> <<"o", "r">>
      [] s = "sc" -> <<"s", "c">>
      [] s = "it" -> <<"i", "t">>
      [] s = "Acme" -> <<"A", "c", "m", "e">>
      [] s = "ac" -> <<"a", "c">>
      [] s = "true" -> <<"t", "r", "u", "e">>
      [] s = "True" -> <<"T", "r", "u", "e">>
      [] s = "TRUE" -> <<"T", "R", "U", "E">>
      [] s = "false" -> <<"f", "a", "l", "s", "e">>
      [] s = "1" -> <<"1">>
      [] s = "Python" -> <<"P", "y", "t", "h", "o", "n">>
      [] s = "python" -> <<"p", "y", "t", "h", "o", "n">>
      [] s = "Go" -> <<"G", "o">>
      [] s = "py" -> <<"p", "y">>
      [] s = "Web" -> <<"W", "e", "b">>
      [] s = "Data" -> <<"D", "a", "t", "a">>
      [] s = "we" -> <<"w", "e">>
      [] s = "da" -> <<"d", "a">>
      [] s = "John" -> <<"J", "o", "h", "n">>
      [] s = "john" -> <<"j", "o", "h", "n">>
      [] s = "Jane" -> <<"J", "a", "n", "e">>
      [] s = "jo" -> <<"j", "o">>
      [] s = "github" -> <<"g", "i", "t", "h", "u", "b">>
      [] s = "linkedin" -> <<"l", "i", "n", "k", "e", "d", "i", "n">>
      [] s = "git" -> <<"g", "i", "t">>
      [] s = "https://x" -> <<"h", "t", "t", "p", "s", ":", "/", "/", "x">>
      [] OTHER -> <<>>

LowerChar(c) ==
    CASE c = "M" -> "m" [] c = "I" -> "i" [] c = "T" -> "t" [] c = "O" -> "o"
      [] c = "B" -> "b" [] c = "S" -> "s" [] c = "A" -> "a" [] c = "R" -> "r"
      [] c = "U" -> "u" [] c = "E" -> "e" [] c = "P" -> "p" [] c = "G" -> "g"
      [] c = "W" -> "w" [] c = "D" -> "d" [] c = "J" -> "j" [] OTHER -> c

LowerSeq(t) == [i \in 1..Len(t) |-> LowerChar(t[i])]

\* the __icontains lookup: needle occurs in text, ignoring case
IContains(text, needle) ==
    \E i \in 0..(Len(Chars(text)) - Len(Chars(needle))) :
        SubSeq(LowerSeq(Chars(text)), i + 1, i + Len(Chars(needle)))
            = LowerSeq(Chars(needle))

\* the letters in the order of their codes
Letters ==
    <<"A", "B", "C", "D", "E", "F", "G", "H", "I", "J", "K", "L", "M", "N", "O", "P", "Q",
      "R", "S", "T", "U", "V", "W", "X", "Y", "Z", "a", "b", "c", "d", "e", "f", "g", "h",
      "i", "j", "k", "l", "m", "n", "o", "p", "q", "r", "s", "t", "u", "v", "w", "x", "y",
      "z">>

Code(c) == CHOOSE i \in DOMAIN Letters : Letters[i] = c

\* a sorts before b in the store's byte-wise collation
SeqBefore(a, b) ==
    \E k \in 1..Len(b) :
        /\ k <= Len(a) + 1
        /\ \A i \in 1..(k - 1) : a[i] = b[i]
        /\ k = Len(a) + 1 \/ Code(a[k]) < Code(b[k])

StrBefore(a, b) == SeqBefore(Chars(a), Chars(b))

\* dict.get(key) on the validated data; none is what None stands for.
Get(d, f, none) == IF f \in DOMAIN d THEN d[f] ELSE none

\* both dates are set and start_date is not before end_date
Misordered(start_date, end_date) ==
    start_date # NoDate /\ end_date # NoDate /\ start_date >= end_date

Restrict(d, S) == [f \in S |-> d[f]]

\* ModelSerializer.update: setattr for every validated field, then save().
Merge(rec, d) == [f \in DOMAIN rec |-> IF f \in DOMAIN d THEN d[f] ELSE rec[f]]

Row(table, id) == CHOOSE r \in table : r.id = id
HasRow(table, id) == \E r \in table : r.id = id

(***************************************************************************)
(* Access policy.                                                          *)
(***************************************************************************)
Callers == {"anonymous", "user", "admin"}
SafeMethods == {"GET", "HEAD", "OPTIONS"}
WriteMethods == {"POST", "PUT", "PATCH", "DELETE"}

\* rest_framework IsAdminUser: request.user and request.user.is_staff
is_staff(caller) == caller = "admin"

AllowAny_has_permission(method, caller) == TRUE

\* me_API/permissions.py
IsAdminUserOrReadOnly(method, caller) ==
    IF method \in SafeMethods THEN TRUE ELSE is_staff(caller)

\* profile_api/views.py (imported by experience_api, skills_api, social_api)
Profile_IsAdminUserOrReadOnly(method, caller) ==
    IF method \in SafeMethods THEN TRUE ELSE is_staff(caller)

\* rest_framework IsAuthenticatedOrReadOnly
IsAuthenticatedOrReadOnly_has_permission(method, caller) ==
    IF method \in SafeMethods THEN TRUE ELSE caller # "anonymous"

\* education_api/views.py
Education_IsAdminUserOrReadOnly(method, caller) ==
    IF method \in SafeMethods THEN TRUE ELSE is_staff(caller)

(***************************************************************************)
(* Responses.                                                              *)
(***************************************************************************)
OK == ""
ServerReasons == {"MultipleObjectsReturned", "DoesNotExist", "IntegrityError"}

\* A ValidationError becomes 400; any other exception is not handled by the
\* views or serializers and leaves the request as a server error.
OutcomeOf(reason) == IF reason \in ServerReasons THEN "ServerError" ELSE "ValidationFailed"

Response(res, method, caller, outcome, reason, removed) ==
    [res |-> res, method |-> method, caller |-> caller, outcome |-> outcome,
     reason |-> reason, removed |-> removed]

Respond(res, method, caller, outcome, reason) ==
    last' = Response(res, method, caller, outcome, reason, 0)

MethodOf(partial) == IF partial THEN "PATCH" ELSE "PUT"

\* A field-level check of the serializer: every required field is supplied
\* unless the update is partial.
MissingRequired(d, required, partial) == ~partial /\ ~(required \subseteq DOMAIN d)

(***************************************************************************)
(* Requests in flight.                                                     *)
(***************************************************************************)
FreeConn(cap) == CHOOSE c \in 1..cap : \A r \in inflight : r.conn # c
CanStart(cap) == Cardinality(inflight) < cap
Pending(res) == Cardinality({r \in inflight : r.res = res})

Accept(res, caller, d, cap) ==
    inflight' = inflight \cup
        {[conn |-> FreeConn(cap), res |-> res, caller |-> caller, data |-> d,
          pc |-> "validated", profile |-> NoPk]}

(***************************************************************************)
(* Profile.                                                                *)
(***************************************************************************)
\* Profile.objects.get(name__iexact=value): the matching rows
ProfilesNamed(name) == {p \in profiles : Lower(p.name) = Lower(name)}

\* Profile.objects.get(name__iexact=value): "" when exactly one row matches
GetProfileByName(name) ==
    IF ProfilesNamed(name) = {} THEN "DoesNotExist"
    ELSE IF Cardinality(ProfilesNamed(name)) > 1 THEN "MultipleObjectsReturned"
    ELSE OK

TheProfileNamed(name) == (CHOOSE p \in ProfilesNamed(name) : TRUE).id

\* Profile.objects.filter(email=value).exists()
EmailExists(email) == \E p \in profiles : p.email = email

ProfileEmailUniqueDropped(email, id) == TRUE

\* email = models.EmailField(unique=True): the column's UNIQUE index admits
\* the value for row id when no other row holds it
ProfileEmailUnique(email, id) == ~\E p \in profiles : p.id # id /\ p.email = email

\* ProfileSerializer.validate_email
validate_email(instance, value) ==
    IF instance # NoPk /\ Row(profiles, instance).email # value
    THEN (IF EmailExists(value) THEN "A profile with this email already exists." ELSE OK)
    ELSE IF instance = NoPk /\ EmailExists(value)
    THEN "A profile with this email already exists."
    ELSE OK

ProfileRequired == {"name", "email"}

ProfileSerializer_is_valid(instance, d, partial) ==
    IF MissingRequired(d, ProfileRequired, partial) THEN "This field is required."
    ELSE IF "email" \in DOMAIN d THEN validate_email(instance, d.email)
    ELSE OK

\* POST /profiles/
ProfileCreate(caller, d, cap) ==
    /\ CanStart(cap)
    /\ nextId.profile + Pending("profile") <= MaxProfiles
    /\ IF ~Profile_IsAdminUserOrReadOnly("POST", caller)
       THEN /\ Respond("profile", "POST", caller, "Forbidden", "permission_denied")
            /\ UNCHANGED <<store, nextId, inflight>>
       ELSE LET err == ProfileSerializer_is_valid(NoPk, d, FALSE) IN
            IF err # OK
            THEN /\ Respond("profile", "POST", caller, OutcomeOf(err), err)
                 /\ UNCHANGED <<store, nextId, inflight>>
            ELSE /\ Accept("profile", caller, d, cap)
                 /\ UNCHANGED <<store, nextId, last>>

\* ProfileSerializer.save() -> Profile.objects.create(**validated_data)
ProfileInsert(r) ==
    /\ r \in inflight /\ r.res = "profile"
    /\ inflight' = inflight \ {r}
    /\ IF ~ProfileEmailUnique(r.data.email, NoPk)
       THEN /\ Respond("profile", "POST", r.caller, "ServerError", "IntegrityError")
            /\ UNCHANGED <<store, nextId>>
       ELSE /\ profiles' = profiles \cup
                    {[id |-> nextId.profile, name |-> r.data.name, email |-> r.data.email]}
            /\ nextId' = [nextId EXCEPT !.profile = @ + 1]
            /\ Respond("profile", "POST", r.caller, "Created", OK)
            /\ UNCHANGED children

\* PUT / PATCH /profiles/<pk>/
ProfileUpdate(caller, id, partial, d, cap) ==
    /\ CanStart(cap)
    /\ UNCHANGED <<children, nextId, inflight>>
    /\ IF ~Profile_IsAdminUserOrReadOnly(MethodOf(partial), caller)
       THEN /\ Respond("profile", MethodOf(partial), caller, "Forbidden", "permission_denied")
            /\ UNCHANGED profiles
       ELSE IF ~HasRow(profiles, id)
       THEN /\ Respond("profile", MethodOf(partial), caller, "NotFound", "Http404")
            /\ UNCHANGED profiles
       ELSE LET err == ProfileSerializer_is_valid(id, d, partial)
                new == Merge(Row(profiles, id), d) IN
            IF err # OK
            THEN /\ Respond("profile", MethodOf(partial), caller, OutcomeOf(err), err)
                 /\ UNCHANGED profiles
            ELSE IF ~ProfileEmailUnique(new.email, id)
            THEN /\ Respond("profile", MethodOf(partial), caller, "ServerError", "IntegrityError")
                 /\ UNCHANGED profiles
            ELSE /\ profiles' = (profiles \ {Row(profiles, id)}) \cup {new}
                 /\ Respond("profile", MethodOf(partial), caller, "OK", OK)

CascadeKeeps(table, id) == table

\* on_delete=models.CASCADE of the five foreign keys to Profile
Cascade(table, id) == {r \in table : r.profile # id}

Owned(id) ==
    Cardinality({r \in education : r.profile = id})
    + Cardinality({r \in experience : r.profile = id})
    + Cardinality({r \in skills : r.profile = id})
    + Cardinality({r \in projects : r.profile = id})
    + Cardinality({r \in links : r.profile = id})

\* DELETE /profiles/<pk>/
ProfileDelete(caller, id, cap) ==
    /\ CanStart(cap)
    /\ UNCHANGED <<nextId, inflight>>
    /\ IF ~Profile_IsAdminUserOrReadOnly("DELETE", caller)
       THEN /\ Respond("profile", "DELETE", caller, "Forbidden", "permission_denied")
            /\ UNCHANGED store
       ELSE IF ~HasRow(profiles, id)
       THEN /\ Respond("profile", "DELETE", caller, "NotFound", "Http404")
            /\ UNCHANGED store
       ELSE /\ profiles' = profiles \ {Row(profiles, id)}
            /\ education' = Cascade(education, id)
            /\ experience' = Cascade(experience, id)
            /\ skills' = Cascade(skills, id)
            /\ projects' = Cascade(projects, id)
            /\ links' = Cascade(links, id)
            /\ last' = Response("profile", "DELETE", caller, "NoContent", OK, Owned(id))

(***************************************************************************)
(* Owner resolution shared by the create serializers of WorkExperience,    *)
(* Skill, Project and SocialLink.                                          *)
(***************************************************************************)
\* validate_profile_name: only Profile.DoesNotExist is caught
validate_profile_name_nocheck(value) == OK

validate_profile_name(value) ==
    IF GetProfileByName(value) = "DoesNotExist" THEN "Profile does not exist"
    ELSE GetProfileByName(value)

\* create(): profile = Profile.objects.get(name__iexact=profile_name)
CreateResolve(r) ==
    /\ r \in inflight /\ r.pc = "validated"
    /\ r.res \in {"experience", "skills", "projects", "social"}
    /\ UNCHANGED <<store, nextId>>
    /\ IF GetProfileByName(r.data.profile_name) # OK
       THEN /\ inflight' = inflight \ {r}
            /\ Respond(r.res, "POST", r.caller, "ServerError", GetProfileByName(r.data.profile_name))
       ELSE /\ inflight' = (inflight \ {r}) \cup
                    {[r EXCEPT !.pc = "resolved", !.profile = TheProfileNamed(r.data.profile_name)]}
            /\ UNCHANGED last

ForeignKeyDropped(pid) == TRUE

\* models.ForeignKey(Profile, ...): the store rejects a row whose owner is gone
ForeignKeyHolds(pid) == HasRow(profiles, pid)

(***************************************************************************)
(* WorkExperience.                                                         *)
(***************************************************************************)
\* WorkExperienceSerializer.validate (detail view: PUT, PATCH)
WorkExperienceSerializer_validate(data) ==
    IF Get(data, "is_current", FALSE) /\ Get(data, "end_date", NoDate) # NoDate
    THEN "Cannot have end_date if position is current"
    ELSE IF ~Get(data, "is_current", FALSE) /\ Get(data, "end_date", NoDate) = NoDate
    THEN "End date is required for non-current positions"
    ELSE IF /\ Get(data, "start_date", NoDate) # NoDate
            /\ Get(data, "end_date", NoDate) # NoDate
            /\ Get(data, "start_date", NoDate) >= Get(data, "end_date", NoDate)
    THEN "Start date must be before end date"
    ELSE OK

WorkExperienceCreateSerializer_validate_datesonly(data) ==
    IF Misordered(Get(data, "start_date", NoDate), Get(data, "end_date", NoDate))
    THEN "Start date must be before end date"
    ELSE OK

\* WorkExperienceCreateSerializer.validate (list view: POST)
WorkExperienceCreateSerializer_validate(data) ==
    IF Get(data, "is_current", FALSE) /\ Get(data, "end_date", NoDate) # NoDate
    THEN "Cannot have end_date if position is current"
    ELSE IF ~Get(data, "is_current", FALSE) /\ Get(data, "end_date", NoDate) = NoDate
    THEN "End date is required for non-current positions"
    ELSE IF /\ Get(data, "start_date", NoDate) # NoDate
            /\ Get(data, "end_date", NoDate) # NoDate
            /\ Get(data, "start_date", NoDate) >= Get(data, "end_date", NoDate)
    THEN "Start date must be before end date"
    ELSE OK

\* the model fields without blank/null/default
WorkExperienceCreateRequired == {"profile_name", "company", "start_date"}
WorkExperienceRequired == {"profile", "company", "start_date"}

\* WorkExperienceCreateSerializer.is_valid: the fields in declared order
\* (validate_profile_name first), then validate()
WorkExperienceCreateSerializer_is_valid(d) ==
    IF "profile_name" \in DOMAIN d /\ validate_profile_name(d.profile_name) \in ServerReasons
    THEN validate_profile_name(d.profile_name)
    ELSE IF MissingRequired(d, WorkExperienceCreateRequired, FALSE)
    THEN "This field is required."
    ELSE IF validate_profile_name(d.profile_name) # OK
    THEN validate_profile_name(d.profile_name)
    ELSE WorkExperienceCreateSerializer_validate(d)

\* WorkExperienceSerializer.is_valid on the detail view
WorkExperienceSerializer_is_valid(d, partial) ==
    IF MissingRequired(d, WorkExperienceRequired, partial) THEN "This field is required."
    ELSE IF "profile" \in DOMAIN d /\ ~HasRow(profiles, d.profile)
    THEN "Invalid pk - object does not exist."
    ELSE WorkExperienceSerializer_validate(d)

\* POST /experience/
ExperienceCreate(caller, d, cap) ==
    /\ CanStart(cap)
    /\ nextId.experience + Pending("experience") <= MaxRecords
    /\ IF ~Profile_IsAdminUserOrReadOnly("POST", caller)
       THEN /\ Respond("experience", "POST", caller, "Forbidden", "permission_denied")
            /\ UNCHANGED <<store, nextId, inflight>>
       ELSE LET err == WorkExperienceCreateSerializer_is_valid(d) IN
            IF err # OK
            THEN /\ Respond("experience", "POST", caller, OutcomeOf(err), err)
                 /\ UNCHANGED <<store, nextId, inflight>>
            ELSE /\ Accept("experience", caller, d, cap)
                 /\ UNCHANGED <<store, nextId, last>>

\* WorkExperienceCreateSerializer.create -> WorkExperience.objects.create
ExperienceInsert(r) ==
    /\ r \in inflight /\ r.res = "experience" /\ r.pc = "resolved"
    /\ inflight' = inflight \ {r}
    /\ UNCHANGED <<profiles, education, skills, projects, links>>
    /\ IF ~ForeignKeyHolds(r.profile)
       THEN /\ Respond("experience", "POST", r.caller, "ServerError", "IntegrityError")
            /\ UNCHANGED <<experience, nextId>>
       ELSE /\ experience' = experience \cup
                    {[id |-> nextId.experience, profile |-> r.profile,
                      company |-> r.data.company,
                      start_date |-> r.data.start_date,
                      end_date |-> Get(r.data, "end_date", NoDate),
                      is_current |-> Get(r.data, "is_current", FALSE)]}
            /\ nextId' = [nextId EXCEPT !.experience = @ + 1]
            /\ Respond("experience", "POST", r.caller, "Created", OK)

\* PUT / PATCH /experience/<pk>/
ExperienceUpdate(caller, id, partial, d, cap) ==
    /\ CanStart(cap)
    /\ UNCHANGED <<profiles, education, skills, projects, links, nextId, inflight>>
    /\ IF ~Profile_IsAdminUserOrReadOnly(MethodOf(partial), caller)
       THEN /\ Respond("experience", MethodOf(partial), caller, "Forbidden", "permission_denied")
            /\ UNCHANGED experience
       ELSE IF ~HasRow(experience, id)
       THEN /\ Respond("experience", MethodOf(partial), caller, "NotFound", "Http404")
            /\ UNCHANGED experience
       ELSE LET err == WorkExperienceSerializer_is_valid(d, partial) IN
            IF err # OK
            THEN /\ Respond("experience", MethodOf(partial), caller, OutcomeOf(err), err)
                 /\ UNCHANGED experience
            ELSE /\ experience' = (experience \ {Row(experience, id)})
                        \cup {Merge(Row(experience, id), d)}
                 /\ Respond("experience", MethodOf(partial), caller, "OK", OK)

\* a destroy that deletes the whole queryset of the record's profile
ExperienceDelete_queryset(caller, id, cap) ==
    /\ CanStart(cap)
    /\ UNCHANGED <<profiles, education, skills, projects, links, nextId, inflight>>
    /\ IF ~Profile_IsAdminUserOrReadOnly("DELETE", caller)
       THEN /\ Respond("experience", "DELETE", caller, "Forbidden", "permission_denied")
            /\ UNCHANGED experience
       ELSE IF ~HasRow(experience, id)
       THEN /\ Respond("experience", "DELETE", caller, "NotFound", "Http404")
            /\ UNCHANGED experience
       ELSE /\ experience' =
                  {r \in experience : r.profile # Row(experience, id).profile}
            /\ Respond("experience", "DELETE", caller, "NoContent", OK)

\* DELETE /experience/<pk>/
ExperienceDelete(caller, id, cap) ==
    /\ CanStart(cap)
    /\ UNCHANGED <<profiles, education, skills, projects, links, nextId, inflight>>
    /\ IF ~Profile_IsAdminUserOrReadOnly("DELETE", caller)
       THEN /\ Respond("experience", "DELETE", caller, "Forbidden", "permission_denied")
            /\ UNCHANGED experience
       ELSE IF ~HasRow(experience, id)
       THEN /\ Respond("experience", "DELETE", caller, "NotFound", "Http404")
            /\ UNCHANGED experience
       ELSE /\ experience' = experience \ {Row(experience, id)}
            /\ Respond("experience", "DELETE", caller, "NoContent", OK)

\* GET / HEAD / OPTIONS /experience/ and /experience/<pk>/
ExperienceRead(method, caller, cap) ==
    /\ CanStart(cap)
    /\ method \in SafeMethods
    /\ UNCHANGED <<store, nextId, inflight>>
    /\ IF ~Profile_IsAdminUserOrReadOnly(method, caller)
       THEN Respond("experience", method, caller, "Forbidden", "permission_denied")
       ELSE Respond("experience", method, caller, "OK", OK)

(***************************************************************************)
(* Education.                                                              *)
(***************************************************************************)
\* EducationSerializer.validate
EducationSerializer_validate(data) ==
    IF /\ Get(data, "start_date", NoDate) # NoDate
       /\ Get(data, "end_date", NoDate) # NoDate
       /\ Get(data, "start_date", NoDate) >= Get(data, "end_date", NoDate)
    THEN "Start date must be before end date."
    ELSE OK

\* EducationCreateUpdateSerializer.validate (POST, PUT, PATCH)
EducationCreateUpdateSerializer_validate(data) ==
    IF /\ Get(data, "start_date", NoDate) # NoDate
       /\ Get(data, "end_date", NoDate) # NoDate
       /\ Get(data, "start_date", NoDate) >= Get(data, "end_date", NoDate)
    THEN "Start date must be before end date."
    ELSE IF Get(data, "institution", "") = "" THEN "Institution is required."
    ELSE IF Get(data, "degree", "") = "" THEN "Degree is required."
    ELSE OK

EducationRequired == {"profile", "institution", "degree", "start_date"}

EducationCreateUpdateSerializer_is_valid(d, partial) ==
    IF MissingRequired(d, EducationRequired, partial) THEN "This field is required."
    ELSE IF "profile" \in DOMAIN d /\ ~HasRow(profiles, d.profile)
    THEN "Invalid pk - object does not exist."
    ELSE EducationCreateUpdateSerializer_validate(d)

\* POST /education/
EducationCreate(caller, d, cap) ==
    /\ CanStart(cap)
    /\ nextId.education + Pending("education") <= MaxRecords
    /\ IF ~Education_IsAdminUserOrReadOnly("POST", caller)
       THEN /\ Respond("education", "POST", caller, "Forbidden", "permission_denied")
            /\ UNCHANGED <<store, nextId, inflight>>
       ELSE LET err == EducationCreateUpdateSerializer_is_valid(d, FALSE) IN
            IF err # OK
            THEN /\ Respond("education", "POST", caller, OutcomeOf(err), err)
                 /\ UNCHANGED <<store, nextId, inflight>>
            ELSE /\ inflight' = inflight \cup
                        {[conn |-> FreeConn(cap), res |-> "education", caller |-> caller,
                          data |-> d, pc |-> "resolved", profile |-> d.profile]}
                 /\ UNCHANGED <<store, nextId, last>>

\* EducationCreateUpdateSerializer.save() -> Education.objects.create
EducationInsert(r) ==
    /\ r \in inflight /\ r.res = "education" /\ r.pc = "resolved"
    /\ inflight' = inflight \ {r}
    /\ UNCHANGED <<profiles, experience, skills, projects, links>>
    /\ IF ~ForeignKeyHolds(r.profile)
       THEN /\ Respond("education", "POST", r.caller, "ServerError", "IntegrityError")
            /\ UNCHANGED <<education, nextId>>
       ELSE /\ education' = education \cup
                    {[id |-> nextId.education, profile |-> r.profile,
                      institution |-> r.data.institution, degree |-> r.data.degree,
                      field_of_study |-> Get(r.data, "field_of_study", ""),
                      start_date |-> r.data.start_date,
                      end_date |-> Get(r.data, "end_date", NoDate),
                      grade |-> Get(r.data, "grade", "")]}
            /\ nextId' = [nextId EXCEPT !.education = @ + 1]
            /\ Respond("education", "POST", r.caller, "Created", OK)

\* PUT / PATCH /education/<pk>/
EducationUpdate(caller, id, partial, d, cap) ==
    /\ CanStart(cap)
    /\ UNCHANGED <<profiles, experience, skills, projects, links, nextId, inflight>>
    /\ IF ~Education_IsAdminUserOrReadOnly(MethodOf(partial), caller)
       THEN /\ Respond("education", MethodOf(partial), caller, "Forbidden", "permission_denied")
            /\ UNCHANGED education
       ELSE IF ~HasRow(education, id)
       THEN /\ Respond("education", MethodOf(partial), caller, "NotFound", "Http404")
            /\ UNCHANGED education
       ELSE LET err == EducationCreateUpdateSerializer_is_valid(d, partial) IN
            IF err # OK
            THEN /\ Respond("education", MethodOf(partial), caller, OutcomeOf(err), err)
                 /\ UNCHANGED education
            ELSE /\ education' = (education \ {Row(education, id)})
                        \cup {Merge(Row(education, id), d)}
                 /\ Respond("education", MethodOf(partial), caller, "OK", OK)

\* DELETE /education/<pk>/
EducationDelete(caller, id, cap) ==
    /\ CanStart(cap)
    /\ UNCHANGED <<profiles, experience, skills, projects, links, nextId, inflight>>
    /\ IF ~Education_IsAdminUserOrReadOnly("DELETE", caller)
       THEN /\ Respond("education", "DELETE", caller, "Forbidden", "permission_denied")
            /\ UNCHANGED education
       ELSE IF ~HasRow(education, id)
       THEN /\ Respond("education", "DELETE", caller, "NotFound", "Http404")
            /\ UNCHANGED education
       ELSE /\ education' = education \ {Row(education, id)}
            /\ Respond("education", "DELETE", caller, "NoContent", OK)

\* GET / HEAD / OPTIONS /education/ and /education/<pk>/
EducationRead(method, caller, cap) ==
    /\ CanStart(cap)
    /\ method \in SafeMethods
    /\ UNCHANGED <<store, nextId, inflight>>
    /\ IF ~Education_IsAdminUserOrReadOnly(method, caller)
       THEN Respond("education", method, caller, "Forbidden", "permission_denied")
       ELSE Respond("education", method, caller, "OK", OK)

(***************************************************************************)
(* Skill.                                                                  *)
(***************************************************************************)
\* Skill.objects.filter(profile=profile, name__iexact=name).exclude(pk=...)
SkillExistsIexact(pid, name, exclude) ==
    \E r \in skills : r.id # exclude /\ r.profile = pid /\ Lower(r.name) = Lower(name)

\* unique_together = ['profile', 'name']: the store's index (and the
\* UniqueTogetherValidator derived from it) compares the name exactly
SkillUniqueTogether(pid, name, exclude) ==
    ~\E r \in skills : r.id # exclude /\ r.profile = pid /\ r.name = name

\* SkillSerializer.validate (detail view: PUT, PATCH); instance is the row's pk
SkillSerializer_validate(instance, data) ==
    IF /\ "profile" \in DOMAIN data /\ "name" \in DOMAIN data
       /\ SkillExistsIexact(data.profile, data.name, instance)
    THEN "Skill already exists for this profile"
    ELSE OK

\* SkillCreateSerializer.validate (list view: POST)
SkillCreateSerializer_validate(data) ==
    IF /\ "profile_name" \in DOMAIN data /\ "name" \in DOMAIN data
       /\ GetProfileByName(data.profile_name) = OK
       /\ SkillExistsIexact(TheProfileNamed(data.profile_name), data.name, NoPk)
    THEN "Skill already exists for profile"
    ELSE OK

SkillCreateRequired == {"profile_name", "name"}
SkillRequired == {"profile", "name"}

SkillCreateSerializer_is_valid(d) ==
    IF "profile_name" \in DOMAIN d /\ validate_profile_name(d.profile_name) \in ServerReasons
    THEN validate_profile_name(d.profile_name)
    ELSE IF MissingRequired(d, SkillCreateRequired, FALSE) THEN "This field is required."
    ELSE IF validate_profile_name(d.profile_name) # OK
    THEN validate_profile_name(d.profile_name)
    ELSE SkillCreateSerializer_validate(d)

\* SkillSerializer.is_valid: fields, the unique-together validator on the
\* row that would result, then validate()
SkillSerializer_is_valid(instance, d, partial) ==
    IF MissingRequired(d, SkillRequired, partial) THEN "This field is required."
    ELSE IF "profile" \in DOMAIN d /\ ~HasRow(profiles, d.profile)
    THEN "Invalid pk - object does not exist."
    ELSE IF ~SkillUniqueTogether(Merge(Row(skills, instance), d).profile,
                                 Merge(Row(skills, instance), d).name, instance)
    THEN "The fields profile, name must make a unique set."
    ELSE SkillSerializer_validate(instance, d)

\* POST /skills/
SkillCreate(caller, d, cap) ==
    /\ CanStart(cap)
    /\ nextId.skills + Pending("skills") <= MaxRecords
    /\ IF ~Profile_IsAdminUserOrReadOnly("POST", caller)
       THEN /\ Respond("skills", "POST", caller, "Forbidden", "permission_denied")
            /\ UNCHANGED <<store, nextId, inflight>>
       ELSE LET err == SkillCreateSerializer_is_valid(d) IN
            IF err # OK
            THEN /\ Respond("skills", "POST", caller, OutcomeOf(err), err)
                 /\ UNCHANGED <<store, nextId, inflight>>
            ELSE /\ Accept("skills", caller, d, cap)
                 /\ UNCHANGED <<store, nextId, last>>

\* SkillCreateSerializer.create -> Skill.objects.create
SkillInsert(r) ==
    /\ r \in inflight /\ r.res = "skills" /\ r.pc = "resolved"
    /\ inflight' = inflight \ {r}
    /\ UNCHANGED <<profiles, education, experience, projects, links>>
    /\ IF ~ForeignKeyHolds(r.profile) \/ ~SkillUniqueTogether(r.profile, r.data.name, NoPk)
       THEN /\ Respond("skills", "POST", r.caller, "ServerError", "IntegrityError")
            /\ UNCHANGED <<skills, nextId>>
       ELSE /\ skills' = skills \cup
                    {[id |-> nextId.skills, profile |-> r.profile, name |-> r.data.name,
                      level |-> Get(r.data, "level", "intermediate"),
                      category |-> Get(r.data, "category", "")]}
            /\ nextId' = [nextId EXCEPT !.skills = @ + 1]
            /\ Respond("skills", "POST", r.caller, "Created", OK)

SkillUpdate_savefirst(caller, id, partial, d, cap) ==
    /\ CanStart(cap)
    /\ UNCHANGED <<profiles, education, experience, projects, links, nextId, inflight>>
    /\ IF ~Profile_IsAdminUserOrReadOnly(MethodOf(partial), caller)
       THEN /\ Respond("skills", MethodOf(partial), caller, "Forbidden", "permission_denied")
            /\ UNCHANGED skills
       ELSE IF ~HasRow(skills, id)
       THEN /\ Respond("skills", MethodOf(partial), caller, "NotFound", "Http404")
            /\ UNCHANGED skills
       ELSE /\ skills' = (skills \ {Row(skills, id)}) \cup {Merge(Row(skills, id), d)}
            /\ Respond("skills", MethodOf(partial), caller,
                       IF SkillSerializer_is_valid(id, d, partial) = OK THEN "OK"
                       ELSE OutcomeOf(SkillSerializer_is_valid(id, d, partial)),
                       SkillSerializer_is_valid(id, d, partial))

\* PUT / PATCH /skills/<pk>/
SkillUpdate(caller, id, partial, d, cap) ==
    /\ CanStart(cap)
    /\ UNCHANGED <<profiles, education, experience, projects, links, nextId, inflight>>
    /\ IF ~Profile_IsAdminUserOrReadOnly(MethodOf(partial), caller)
       THEN /\ Respond("skills", MethodOf(partial), caller, "Forbidden", "permission_denied")
            /\ UNCHANGED skills
       ELSE IF ~HasRow(skills, id)
       THEN /\ Respond("skills", MethodOf(partial), caller, "NotFound", "Http404")
            /\ UNCHANGED skills
       ELSE LET err == SkillSerializer_is_valid(id, d, partial)
                new == Merge(Row(skills, id), d) IN
            IF err # OK
            THEN /\ Respond("skills", MethodOf(partial), caller, OutcomeOf(err), err)
                 /\ UNCHANGED skills
            ELSE IF ~SkillUniqueTogether(new.profile, new.name, id)
            THEN /\ Respond("skills", MethodOf(partial), caller, "ServerError", "IntegrityError")
                 /\ UNCHANGED skills
            ELSE /\ skills' = (skills \ {Row(skills, id)}) \cup {new}
                 /\ Respond("skills", MethodOf(partial), caller, "OK", OK)

\* DELETE /skills/<pk>/
SkillDelete(caller, id, cap) ==
    /\ CanStart(cap)
    /\ UNCHANGED <<profiles, education, experience, projects, links, nextId, inflight>>
    /\ IF ~Profile_IsAdminUserOrReadOnly("DELETE", caller)
       THEN /\ Respond("skills", "DELETE", caller, "Forbidden", "permission_denied")
            /\ UNCHANGED skills
       ELSE IF ~HasRow(skills, id)
       THEN /\ Respond("skills", "DELETE", caller, "NotFound", "Http404")
            /\ UNCHANGED skills
       ELSE /\ skills' = skills \ {Row(skills, id)}
            /\ Respond("skills", "DELETE", caller, "NoContent", OK)

(***************************************************************************)
(* SocialLink.                                                             *)
(***************************************************************************)
\* SocialLink.objects.filter(profile=profile, link_type=link_type).exclude(pk=...)
SocialLinkExists(pid, link_type, exclude) ==
    \E r \in links : r.id # exclude /\ r.profile = pid /\ r.link_type = link_type

\* a link table without the unique_together constraint
SocialLinkUnconstrained(pid, link_type, exclude) == TRUE

\* unique_together = ['profile', 'link_type']
SocialLinkUniqueTogether(pid, link_type, exclude) ==
    ~\E r \in links : r.id # exclude /\ r.profile = pid /\ r.link_type = link_type

\* SocialLinkSerializer.validate (detail view: PUT, PATCH)
SocialLinkSerializer_validate(instance, data) ==
    IF /\ "profile" \in DOMAIN data /\ "link_type" \in DOMAIN data
       /\ SocialLinkExists(data.profile, data.link_type, instance)
    THEN "A link of this type already exists for this profile"
    ELSE OK

SocialLinkCreateSerializer_validate_nocheck(data) == OK

\* SocialLinkCreateSerializer.validate (list view: POST)
SocialLinkCreateSerializer_validate(data) ==
    IF /\ "profile_name" \in DOMAIN data /\ "link_type" \in DOMAIN data
       /\ GetProfileByName(data.profile_name) = OK
       /\ SocialLinkExists(TheProfileNamed(data.profile_name), data.link_type, NoPk)
    THEN "A link of this type already exists for profile"
    ELSE OK

SocialLinkCreateRequired == {"profile_name", "link_type", "url"}
SocialLinkRequired == {"profile", "link_type", "url"}

SocialLinkCreateSerializer_is_valid(d) ==
    IF "profile_name" \in DOMAIN d /\ validate_profile_name(d.profile_name) \in ServerReasons
    THEN validate_profile_name(d.profile_name)
    ELSE IF MissingRequired(d, SocialLinkCreateRequired, FALSE) THEN "This field is required."
    ELSE IF validate_profile_name(d.profile_name) # OK
    THEN validate_profile_name(d.profile_name)
    ELSE SocialLinkCreateSerializer_validate(d)

SocialLinkSerializer_is_valid(instance, d, partial) ==
    IF MissingRequired(d, SocialLinkRequired, partial) THEN "This field is required."
    ELSE IF "profile" \in DOMAIN d /\ ~HasRow(profiles, d.profile)
    THEN "Invalid pk - object does not exist."
    ELSE IF ~SocialLinkUniqueTogether(Merge(Row(links, instance), d).profile,
                                      Merge(Row(links, instance), d).link_type, instance)
    THEN "The fields profile, link_type must make a unique set."
    ELSE SocialLinkSerializer_validate(instance, d)

\* POST /social-links/
SocialLinkCreate(caller, d, cap) ==
    /\ CanStart(cap)
    /\ nextId.social + Pending("social") <= MaxRecords
    /\ IF ~Profile_IsAdminUserOrReadOnly("POST", caller)
       THEN /\ Respond("social", "POST", caller, "Forbidden", "permission_denied")
            /\ UNCHANGED <<store, nextId, inflight>>
       ELSE LET err == SocialLinkCreateSerializer_is_valid(d) IN
            IF err # OK
            THEN /\ Respond("social", "POST", caller, OutcomeOf(err), err)
                 /\ UNCHANGED <<store, nextId, inflight>>
            ELSE /\ Accept("social", caller, d, cap)
                 /\ UNCHANGED <<store, nextId, last>>

\* SocialLinkCreateSerializer.create -> SocialLink.objects.create
SocialLinkInsert(r) ==
    /\ r \in inflight /\ r.res = "social" /\ r.pc = "resolved"
    /\ inflight' = inflight \ {r}
    /\ UNCHANGED <<profiles, education, experience, skills, projects>>
    /\ IF \/ ~ForeignKeyHolds(r.profile)
          \/ ~SocialLinkUniqueTogether(r.profile, r.data.link_type, NoPk)
       THEN /\ Respond("social", "POST", r.caller, "ServerError", "IntegrityError")
            /\ UNCHANGED <<links, nextId>>
       ELSE /\ links' = links \cup
                    {[id |-> nextId.social, profile |-> r.profile,
                      link_type |-> r.data.link_type, url |-> r.data.url,
                      display_name |-> Get(r.data, "display_name", "")]}
            /\ nextId' = [nextId EXCEPT !.social = @ + 1]
            /\ Respond("social", "POST", r.caller, "Created", OK)

\* PUT / PATCH /social-links/<pk>/
SocialLinkUpdate(caller, id, partial, d, cap) ==
    /\ CanStart(cap)
    /\ UNCHANGED <<profiles, education, experience, skills, projects, nextId, inflight>>
    /\ IF ~Profile_IsAdminUserOrReadOnly(MethodOf(partial), caller)
       THEN /\ Respond("social", MethodOf(partial), caller, "Forbidden", "permission_denied")
            /\ UNCHANGED links
       ELSE IF ~HasRow(links, id)
       THEN /\ Respond("social", MethodOf(partial), caller, "NotFound", "Http404")
            /\ UNCHANGED links
       ELSE LET err == SocialLinkSerializer_is_valid(id, d, partial)
                new == Merge(Row(links, id), d) IN
            IF err # OK
            THEN /\ Respond("social", MethodOf(partial), caller, OutcomeOf(err), err)
                 /\ UNCHANGED links
            ELSE IF ~SocialLinkUniqueTogether(new.profile, new.link_type, id)
            THEN /\ Respond("social", MethodOf(partial), caller, "ServerError", "IntegrityError")
                 /\ UNCHANGED links
            ELSE /\ links' = (links \ {Row(links, id)}) \cup {new}
                 /\ Respond("social", MethodOf(partial), caller, "OK", OK)

\* DELETE /social-links/<pk>/
SocialLinkDelete(caller, id, cap) ==
    /\ CanStart(cap)
    /\ UNCHANGED <<profiles, education, experience, skills, projects, nextId, inflight>>
    /\ IF ~Profile_IsAdminUserOrReadOnly("DELETE", caller)
       THEN /\ Respond("social", "DELETE", caller, "Forbidden", "permission_denied")
            /\ UNCHANGED links
       ELSE IF ~HasRow(links, id)
       THEN /\ Respond("social", "DELETE", caller, "NotFound", "Http404")
            /\ UNCHANGED links
       ELSE /\ links' = links \ {Row(links, id)}
            /\ Respond("social", "DELETE", caller, "NoContent", OK)

(***************************************************************************)
(* Project.  projects_api/urls.py routes to ProjectListCreateView and      *)
(* ProjectDetailView; the views follow the other resources' pattern with   *)
(* the serializers of projects_api/serializers.py.                         *)
(***************************************************************************)
RECURSIVE split(_, _)
\* str.split(','): cur is the piece being read
split(s, cur) ==
    IF s = <<>> THEN <<cur>>
    ELSE IF Head(s) = "," THEN <<cur>> \o split(Tail(s), <<>>)
    ELSE split(Tail(s), Append(cur, Head(s)))

RECURSIVE lstrip(_)
lstrip(s) == IF s # <<>> /\ Head(s) = " " THEN lstrip(Tail(s)) ELSE s

RECURSIVE rstrip(_)
rstrip(s) == IF s # <<>> /\ s[Len(s)] = " " THEN rstrip(SubSeq(s, 1, Len(s) - 1)) ELSE s

strip(s) == rstrip(lstrip(s))

\* the same list comprehension without tech.strip()
techs_unstripped(technologies) ==
    SelectSeq(split(technologies, <<>>), LAMBDA tech : strip(tech) # <<>>)

\* [tech.strip() for tech in project.technologies.split(',') if tech.strip()]
techs(technologies) ==
    LET pieces == split(technologies, <<>>)
    IN  SelectSeq([i \in 1..Len(pieces) |-> strip(pieces[i])], LAMBDA tech : tech # <<>>)

RECURSIVE join(_)
\* ', '.join(items)
join(items) ==
    IF items = <<>> THEN <<>>
    ELSE IF Len(items) = 1 THEN Head(items)
    ELSE Head(items) \o <<",", " ">> \o join(Tail(items))

\* ProjectSerializer.get_technologies_list
get_technologies_list(obj) ==
    IF obj.technologies # <<>> THEN techs(obj.technologies) ELSE <<>>

\* ProjectSerializer.validate (detail view: PUT, PATCH)
ProjectSerializer_validate(data) ==
    IF /\ Get(data, "start_date", NoDate) # NoDate
       /\ Get(data, "end_date", NoDate) # NoDate
       /\ Get(data, "start_date", NoDate) >= Get(data, "end_date", NoDate)
    THEN "Start date must be before end date"
    ELSE OK

\* ProjectCreateSerializer.validate (list view: POST), the date rule
ProjectCreateSerializer_validate(data) ==
    IF /\ Get(data, "start_date", NoDate) # NoDate
       /\ Get(data, "end_date", NoDate) # NoDate
       /\ Get(data, "start_date", NoDate) >= Get(data, "end_date", NoDate)
    THEN "Start date must be before end date"
    ELSE OK

\* technologies is a CharField without blank=True or default: the derived
\* serializer field is required and refuses an empty or blank string
ProjectCreateRequired == {"profile_name", "title", "technologies"}
ProjectRequired == {"profile", "title", "technologies"}

\* field-level checks of technologies and of the items of technologies_list
ProjectTechnologiesFields(d) ==
    IF "technologies" \in DOMAIN d /\ strip(d.technologies) = <<>>
    THEN "This field may not be blank."
    ELSE IF /\ "technologies_list" \in DOMAIN d
            /\ \E i \in DOMAIN d.technologies_list : strip(d.technologies_list[i]) = <<>>
    THEN "This field may not be blank."
    ELSE OK

\* ProjectCreateSerializer.validate, the conversion: the technologies that
\* validated data carries to create()
ProjectCreateSerializer_technologies(data) ==
    IF /\ "technologies_list" \in DOMAIN data /\ data.technologies_list # <<>>
       /\ Get(data, "technologies", <<>>) = <<>>
    THEN join([i \in DOMAIN data.technologies_list |-> strip(data.technologies_list[i])])
    ELSE strip(Get(data, "technologies", <<>>))

ProjectCreateSerializer_is_valid(d) ==
    IF "profile_name" \in DOMAIN d /\ validate_profile_name(d.profile_name) \in ServerReasons
    THEN validate_profile_name(d.profile_name)
    ELSE IF MissingRequired(d, ProjectCreateRequired, FALSE) THEN "This field is required."
    ELSE IF ProjectTechnologiesFields(d) # OK THEN ProjectTechnologiesFields(d)
    ELSE IF validate_profile_name(d.profile_name) # OK
    THEN validate_profile_name(d.profile_name)
    ELSE ProjectCreateSerializer_validate(d)

ProjectSerializer_is_valid(d, partial) ==
    IF MissingRequired(d, ProjectRequired, partial) THEN "This field is required."
    ELSE IF ProjectTechnologiesFields(d) # OK THEN ProjectTechnologiesFields(d)
    ELSE IF "profile" \in DOMAIN d /\ ~HasRow(profiles, d.profile)
    THEN "Invalid pk - object does not exist."
    ELSE ProjectSerializer_validate(d)

\* POST /projects/
ProjectCreate(caller, d, cap) ==
    /\ CanStart(cap)
    /\ nextId.projects + Pending("projects") <= MaxRecords
    /\ IF ~IsAdminUserOrReadOnly("POST", caller)
       THEN /\ Respond("projects", "POST", caller, "Forbidden", "permission_denied")
            /\ UNCHANGED <<store, nextId, inflight>>
       ELSE LET err == ProjectCreateSerializer_is_valid(d) IN
            IF err # OK
            THEN /\ Respond("projects", "POST", caller, OutcomeOf(err), err)
                 /\ UNCHANGED <<store, nextId, inflight>>
            ELSE /\ Accept("projects", caller, d, cap)
                 /\ UNCHANGED <<store, nextId, last>>

\* ProjectCreateSerializer.create -> Project.objects.create
ProjectInsert(r) ==
    /\ r \in inflight /\ r.res = "projects" /\ r.pc = "resolved"
    /\ inflight' = inflight \ {r}
    /\ UNCHANGED <<profiles, education, experience, skills, links>>
    /\ IF ~ForeignKeyHolds(r.profile)
       THEN /\ Respond("projects", "POST", r.caller, "ServerError", "IntegrityError")
            /\ UNCHANGED <<projects, nextId>>
       ELSE /\ projects' = projects \cup
                    {[id |-> nextId.projects, profile |-> r.profile, title |-> r.data.title,
                      start_date |-> Get(r.data, "start_date", NoDate),
                      end_date |-> Get(r.data, "end_date", NoDate),
                      technologies |-> ProjectCreateSerializer_technologies(r.data),
                      is_featured |-> Get(r.data, "is_featured", FALSE)]}
            /\ nextId' = [nextId EXCEPT !.projects = @ + 1]
            /\ Respond("projects", "POST", r.caller, "Created", OK)

\* PUT / PATCH /projects/<pk>/
ProjectUpdate(caller, id, partial, d, cap) ==
    /\ CanStart(cap)
    /\ UNCHANGED <<profiles, education, experience, skills, links, nextId, inflight>>
    /\ IF ~IsAdminUserOrReadOnly(MethodOf(partial), caller)
       THEN /\ Respond("projects", MethodOf(partial), caller, "Forbidden", "permission_denied")
            /\ UNCHANGED projects
       ELSE IF ~HasRow(projects, id)
       THEN /\ Respond("projects", MethodOf(partial), caller, "NotFound", "Http404")
            /\ UNCHANGED projects
       ELSE LET err == ProjectSerializer_is_valid(d, partial) IN
            IF err # OK
            THEN /\ Respond("projects", MethodOf(partial), caller, OutcomeOf(err), err)
                 /\ UNCHANGED projects
            ELSE /\ projects' = (projects \ {Row(projects, id)})
                        \cup {Merge(Row(projects, id), d)}
                 /\ Respond("projects", MethodOf(partial), caller, "OK", OK)

\* DELETE /projects/<pk>/
ProjectDelete(caller, id, cap) ==
    /\ CanStart(cap)
    /\ UNCHANGED <<profiles, education, experience, skills, links, nextId, inflight>>
    /\ IF ~IsAdminUserOrReadOnly("DELETE", caller)
       THEN /\ Respond("projects", "DELETE", caller, "Forbidden", "permission_denied")
            /\ UNCHANGED projects
       ELSE IF ~HasRow(projects, id)
       THEN /\ Respond("projects", "DELETE", caller, "NotFound", "Http404")
            /\ UNCHANGED projects
       ELSE /\ projects' = projects \ {Row(projects, id)}
            /\ Respond("projects", "DELETE", caller, "NoContent", OK)

(***************************************************************************)
(* The state after migration: empty tables, no request yet.                *)
(***************************************************************************)
Init ==
    /\ profiles = {} /\ education = {} /\ experience = {}
    /\ skills = {} /\ projects = {} /\ links = {}
    /\ nextId = [profile |-> 1, education |-> 1, experience |-> 1, skills |-> 1,
                 projects |-> 1, social |-> 1]
    /\ inflight = {}
    /\ last = Response("none", "GET", "anonymous", "OK", OK, 0)

(***************************************************************************)
(* Request payloads.                                                       *)
(***************************************************************************)
ProfilePayloads ==
    {Restrict(d, S) : d \in [name : ProfileNames, email : Emails],
                      S \in SUBSET {"name", "email"}}

\* the owners used by the specifications about child resources
OwnerPayloads ==
    {[name |-> "John", email |-> "john@example.com"],
     [name |-> "Jane", email |-> "jane@example.com"]}

ExperienceCreatePayloads ==
    {Restrict(d, S) :
        d \in [profile_name : {"John", "Nobody"}, company : {"Acme"},
               start_date : Dates, end_date : Dates \cup {NoDate}, is_current : BOOLEAN],
        S \in {{"profile_name", "company", "start_date"} \cup T :
                  T \in SUBSET {"end_date", "is_current"}} \cup {{"company"}}}

ExperienceUpdatePayloads ==
    {Restrict(d, S) :
        d \in [profile : ProfileIds, company : {"Acme"},
               start_date : Dates, end_date : Dates \cup {NoDate}, is_current : BOOLEAN],
        S \in {R \cup T : R \in {{}, {"profile", "company"}},
                           T \in SUBSET {"start_date", "end_date", "is_current"}}}

(***************************************************************************)
(* WorkExperience endpoints with an admin client, one request at a time.   *)
(***************************************************************************)
NextExperience ==
    \/ \E d \in OwnerPayloads : ProfileCreate("admin", d, 1)
    \/ \E r \in inflight : ProfileInsert(r)
    \/ \E d \in ExperienceCreatePayloads : ExperienceCreate("admin", d, 1)
    \/ \E r \in inflight : CreateResolve(r)
    \/ \E r \in inflight : ExperienceInsert(r)
    \/ \E id \in RecordIds, partial \in BOOLEAN, d \in ExperienceUpdatePayloads :
          ExperienceUpdate("admin", id, partial, d, 1)
    \/ \E id \in RecordIds : ExperienceDelete("admin", id, 1)

SpecExperience == Init /\ [][NextExperience]_vars

\* C2: every stored Education, WorkExperience and Project record that has
\* both dates set has start_date before end_date.
C2_DatesOrdered ==
    /\ \A r \in education :
          r.end_date # NoDate => r.start_date < r.end_date
    /\ \A r \in experience :
          r.end_date # NoDate => r.start_date < r.end_date
    /\ \A r \in projects :
          (r.start_date # NoDate /\ r.end_date # NoDate) => r.start_date < r.end_date

\* C3: every stored WorkExperience record has is_current true exactly when
\* its end_date is absent.
C3_CurrentIffNoEndDate ==
    \A r \in experience : r.is_current <=> (r.end_date = NoDate)

(***************************************************************************)
(* The access policy on the Profile, WorkExperience and Education          *)
(* endpoints, for every caller, one request at a time.                     *)
(***************************************************************************)
AccessExperienceCreates ==
    {[profile_name |-> "John", company |-> "Acme", start_date |-> 1, is_current |-> TRUE]}
AccessExperienceUpdates == {[end_date |-> MaxDate, is_current |-> FALSE]}
AccessEducationCreates ==
    {[profile |-> 1, institution |-> "MIT", degree |-> "BSc", start_date |-> 1]}

NextAccess ==
    \/ \E c \in Callers, d \in OwnerPayloads : ProfileCreate(c, d, 1)
    \/ \E r \in inflight : ProfileInsert(r)
    \/ \E c \in Callers, d \in AccessExperienceCreates : ExperienceCreate(c, d, 1)
    \/ \E r \in inflight : CreateResolve(r)
    \/ \E r \in inflight : ExperienceInsert(r)
    \/ \E c \in Callers, id \in RecordIds, d \in AccessExperienceUpdates :
          ExperienceUpdate(c, id, TRUE, d, 1)
    \/ \E c \in Callers, id \in RecordIds : ExperienceDelete(c, id, 1)
    \/ \E m \in SafeMethods, c \in Callers : ExperienceRead(m, c, 1)
    \/ \E c \in Callers, d \in AccessEducationCreates : EducationCreate(c, d, 1)
    \/ \E r \in inflight : EducationInsert(r)
    \/ \E c \in Callers, id \in RecordIds : EducationDelete(c, id, 1)
    \/ \E m \in SafeMethods, c \in Callers : EducationRead(m, c, 1)

SpecAccess == Init /\ [][NextAccess]_vars

SkillCreatePayloads ==
    {Restrict(d, S) : d \in [profile_name : {"John", "Jane"}, name : SkillNames],
                      S \in {{"profile_name", "name"}, {"profile_name"}}}

SkillUpdatePayloads ==
    {Restrict(d, S) : d \in [profile : ProfileIds, name : SkillNames],
                      S \in SUBSET {"profile", "name"}}

NextSkills ==
    \/ \E d \in OwnerPayloads : ProfileCreate("admin", d, 1)
    \/ \E r \in inflight : ProfileInsert(r)
    \/ \E d \in SkillCreatePayloads : SkillCreate("admin", d, 1)
    \/ \E r \in inflight : CreateResolve(r)
    \/ \E r \in inflight : SkillInsert(r)
    \/ \E id \in RecordIds, partial \in BOOLEAN, d \in SkillUpdatePayloads :
          SkillUpdate("admin", id, partial, d, 1)
    \/ \E id \in RecordIds : SkillDelete("admin", id, 1)

SpecSkills == Init /\ [][NextSkills]_vars

\* C4: for each profile and each skill name compared case-insensitively
\* there is at most one Skill record.
C4_SkillNameUniqueIgnoringCase ==
    \A a \in skills, b \in skills :
        (a.profile = b.profile /\ Lower(a.name) = Lower(b.name)) => a.id = b.id

(***************************************************************************)
(* Concurrent Skill creates by admin clients.                              *)
(***************************************************************************)
NextSkillRace ==
    \/ \E d \in OwnerPayloads : ProfileCreate("admin", d, MaxInflight)
    \/ \E r \in inflight : ProfileInsert(r)
    \/ \E d \in SkillCreatePayloads : SkillCreate("admin", d, MaxInflight)
    \/ \E r \in inflight : CreateResolve(r)
    \/ \E r \in inflight : SkillInsert(r)

SpecSkillRace == Init /\ [][NextSkillRace]_vars

\* C10: of two concurrent Skill creates for the same profile whose names are
\* equal or differ only in letter case, at most one commits: a create never
\* commits a record while the profile holds another record of that name.
C10_AtMostOneCreateCommits ==
    [][\A r \in inflight :
          (SkillInsert(r) /\ last'.outcome = "Created")
             => ~\E k \in skills :
                    k.profile = r.profile /\ Lower(k.name) = Lower(r.data.name)]_vars

(***************************************************************************)
(* SocialLink endpoints with concurrent admin clients.                     *)
(***************************************************************************)
SocialLinkCreatePayloads ==
    {Restrict(d, S) :
        d \in [profile_name : {"John", "Jane"}, link_type : LinkTypes, url : {"https://x"}],
        S \in {{"profile_name", "link_type", "url"}, {"profile_name", "link_type"}}}

\* update requests <<partial, data>>: every full PUT, a PUT without url, and
\* the PATCHes of one field
SocialLinkUpdateRequests ==
    {<<FALSE, d>> : d \in [profile : ProfileIds, link_type : LinkTypes, url : {"https://x"}]}
    \cup {<<FALSE, d>> : d \in [profile : {1}, link_type : {"github"}]}
    \cup {<<TRUE, d>> : d \in [profile : ProfileIds] \cup [link_type : LinkTypes]}

NextSocial ==
    \/ \E d \in OwnerPayloads : ProfileCreate("admin", d, MaxInflight)
    \/ \E r \in inflight : ProfileInsert(r)
    \/ \E d \in SocialLinkCreatePayloads : SocialLinkCreate("admin", d, MaxInflight)
    \/ \E r \in inflight : CreateResolve(r)
    \/ \E r \in inflight : SocialLinkInsert(r)
    \/ \E id \in RecordIds, u \in SocialLinkUpdateRequests :
          SocialLinkUpdate("admin", id, u[1], u[2], MaxInflight)
    \/ \E id \in RecordIds : SocialLinkDelete("admin", id, MaxInflight)

SpecSocial == Init /\ [][NextSocial]_vars

LinkTypeUnique(table) ==
    \A a \in table, b \in table :
        (a.profile = b.profile /\ a.link_type = b.link_type) => a.id = b.id

\* the profile named in a create request already has a link of its link_type
AlreadyLinked(d) ==
    \E p \in ProfilesNamed(d.profile_name) :
        \E k \in links : k.profile = p.id /\ k.link_type = d.link_type

Failures == {"Forbidden", "NotFound", "ValidationFailed", "ServerError"}

\* C5: for each profile and each link_type there is at most one SocialLink
\* record; a create of a link of a type the profile already has is never
\* accepted, a create that is not accepted is answered with a validation
\* error, and a request that fails leaves the stored links as they were.
C5_LinkTypeUniquePerProfile ==
    [][/\ LinkTypeUnique(links')
       /\ \A r \in inflight' \ inflight : (r.res = "social" /\ r.pc = "validated") => ~AlreadyLinked(r.data)
       /\ (last' # last /\ last'.res = "social" /\ last'.method = "POST"
             /\ inflight' = inflight) => last'.outcome = "ValidationFailed"
       /\ (last' # last /\ last'.outcome \in Failures) => links' = links]_vars

\* A duplicate create was refused by the serializer's check while the link
\* it duplicates is stored.
C5_Witness ==
    /\ last.res = "social" /\ last.method = "POST"
    /\ last.outcome = "ValidationFailed"
    /\ last.reason = "A link of this type already exists for profile"
    /\ links # {}

\* C9: when the store's unique constraint rejects the INSERT of a writer that
\* passed the pre-check, the response is a conflict error and exactly one
\* record with the key is stored.
C9_UniqueRejectionIsConflict ==
    [][\A r \in inflight :
          (SocialLinkInsert(r) /\ ForeignKeyHolds(r.profile)
             /\ ~SocialLinkUniqueTogether(r.profile, r.data.link_type, NoPk))
          => /\ last'.outcome = "Conflict"
             /\ Cardinality({k \in links' : k.profile = r.profile
                                            /\ k.link_type = r.data.link_type}) = 1]_vars

(***************************************************************************)
(* Profile endpoints with concurrent admin clients.                        *)
(***************************************************************************)
NextProfiles ==
    \/ \E d \in ProfilePayloads : ProfileCreate("admin", d, MaxInflight)
    \/ \E r \in inflight : ProfileInsert(r)
    \/ \E id \in ProfileIds, partial \in BOOLEAN, d \in ProfilePayloads :
          ProfileUpdate("admin", id, partial, d, MaxInflight)
    \/ \E id \in ProfileIds : ProfileDelete("admin", id, MaxInflight)

SpecProfiles == Init /\ [][NextProfiles]_vars

EmailUnique(table) == \A a \in table, b \in table : a.email = b.email => a.id = b.id

\* C6: no two Profile records have the same email; a create with an email
\* that a profile holds is never accepted, an update never leaves two
\* profiles with one email, and a request that fails leaves the store
\* unchanged.
C6_EmailUnique ==
    [][/\ EmailUnique(profiles')
       /\ \A r \in inflight' \ inflight : (r.res = "profile" /\ r.pc = "validated") => ~EmailExists(r.data.email)
       /\ (last' # last /\ last'.outcome \in Failures) => store' = store]_vars

\* An update to an email held by another profile was refused.
C6_Witness ==
    /\ last.res = "profile" /\ last.method \in {"PUT", "PATCH"}
    /\ last.outcome = "ValidationFailed"
    /\ last.reason = "A profile with this email already exists."
    /\ Cardinality(profiles) = 2

(***************************************************************************)
(* Profile delete interleaved with creates of the five child resources.    *)
(***************************************************************************)
CascadeEducationCreates ==
    [profile : ProfileIds, institution : {"MIT"}, degree : {"BSc"}, start_date : {1}]
CascadeExperienceCreates ==
    [profile_name : {"John"}, company : {"Acme"}, start_date : {1},
     is_current : {TRUE}]
CascadeSkillCreates == [profile_name : {"John"}, name : {"Python"}]
CascadeProjectCreates == [profile_name : {"John"}, title : {"API"}, technologies : {<<"a">>}]
CascadeSocialLinkCreates ==
    [profile_name : {"John"}, link_type : {"github"}, url : {"https://x"}]

CascadeExperienceUpdates == [profile : ProfileIds]

\* child creates issued so far, committed or in flight
ChildCreates ==
    (nextId.education - 1) + (nextId.experience - 1) + (nextId.skills - 1)
    + (nextId.projects - 1) + (nextId.social - 1)
    + Cardinality({r \in inflight : r.res # "profile"})

MaxOwned == 2

NextCascade ==
    \/ \E d \in OwnerPayloads : ProfileCreate("admin", d, 1)
    \/ \E r \in inflight : ProfileInsert(r)
    \/ \E id \in ProfileIds : ProfileDelete("admin", id, MaxInflight)
    \/ ChildCreates < MaxOwned
          /\ \E d \in CascadeEducationCreates : EducationCreate("admin", d, MaxInflight)
    \/ \E r \in inflight : EducationInsert(r)
    \/ ChildCreates < MaxOwned
          /\ \E d \in CascadeExperienceCreates : ExperienceCreate("admin", d, MaxInflight)
    \/ \E r \in inflight : ExperienceInsert(r)
    \/ \E id \in RecordIds, d \in CascadeExperienceUpdates :
          ExperienceUpdate("admin", id, TRUE, d, MaxInflight)
    \/ ChildCreates < MaxOwned
          /\ \E d \in CascadeSkillCreates : SkillCreate("admin", d, MaxInflight)
    \/ \E r \in inflight : SkillInsert(r)
    \/ ChildCreates < MaxOwned
          /\ \E d \in CascadeProjectCreates : ProjectCreate("admin", d, MaxInflight)
    \/ \E r \in inflight : ProjectInsert(r)
    \/ ChildCreates < MaxOwned
          /\ \E d \in CascadeSocialLinkCreates : SocialLinkCreate("admin", d, MaxInflight)
    \/ \E r \in inflight : SocialLinkInsert(r)
    \/ \E r \in inflight : CreateResolve(r)

SpecCascade == Init /\ [][NextCascade]_vars

\* C7: a step that deletes a Profile removes every Education, WorkExperience,
\* Skill, Project and SocialLink record owned by it and no record owned by
\* any other profile.
C7_DeleteRemovesOwnedOnly ==
    [][\A id \in ProfileIds :
          (HasRow(profiles, id) /\ ~HasRow(profiles', id))
             => /\ education' = {r \in education : r.profile # id}
                /\ experience' = {r \in experience : r.profile # id}
                /\ skills' = {r \in skills : r.profile # id}
                /\ projects' = {r \in projects : r.profile # id}
                /\ links' = {r \in links : r.profile # id}]_vars

\* A delete removed a profile with records while another profile keeps its own.
C7_Witness ==
    /\ last.res = "profile" /\ last.method = "DELETE" /\ last.outcome = "NoContent"
    /\ last.removed >= 1
    /\ \E p \in profiles : Owned(p.id) >= 1

\* C8: every Education, WorkExperience, Skill, Project and SocialLink record
\* references exactly one Profile that is in the store.
C8_ChildReferencesOneProfile ==
    \A r \in education \cup experience \cup skills \cup projects \cup links :
        Cardinality({p \in profiles : p.id = r.profile}) = 1

\* The INSERT of a create that resolved its owner by profile_name was
\* rejected because the owner had been deleted in the meantime.
C8_Witness ==
    /\ last.res \in {"experience", "projects"} /\ last.method = "POST"
    /\ last.outcome = "ServerError" /\ last.reason = "IntegrityError"

(***************************************************************************)
(* Rejection of writes with misordered dates.                              *)
(***************************************************************************)
\* C11: a create or update of an Education, WorkExperience or Project whose
\* start_date is greater than or equal to its end_date is refused with a
\* validation error and leaves the store unchanged: no such create is
\* accepted, no write stores a record with misordered dates, and a
\* validation failure changes nothing.
C11_MisorderedWriteRejected ==
    [][/\ \A r \in inflight' \ inflight :
             r.res \in {"education", "experience", "projects"}
                => ~Misordered(Get(r.data, "start_date", NoDate),
                               Get(r.data, "end_date", NoDate))
       /\ \A r \in education' \ education : ~Misordered(r.start_date, r.end_date)
       /\ \A r \in experience' \ experience : ~Misordered(r.start_date, r.end_date)
       /\ \A r \in projects' \ projects : ~Misordered(r.start_date, r.end_date)
       /\ (last' # last /\ last'.outcome = "ValidationFailed") => store' = store]_vars

(***************************************************************************)
(* WorkExperience creates with an admin client, one request at a time.     *)
(***************************************************************************)
NextExperienceCreate ==
    \/ \E d \in OwnerPayloads : ProfileCreate("admin", d, 1)
    \/ \E r \in inflight : ProfileInsert(r)
    \/ \E d \in ExperienceCreatePayloads : ExperienceCreate("admin", d, 1)
    \/ \E r \in inflight : CreateResolve(r)
    \/ \E r \in inflight : ExperienceInsert(r)
    \/ \E id \in RecordIds : ExperienceDelete("admin", id, 1)

SpecExperienceCreate == Init /\ [][NextExperienceCreate]_vars

\* C12: a WorkExperience create with is_current true and an end_date, or with
\* is_current false or omitted and no end_date, is never accepted; a create
\* that is not accepted is answered with a validation error and adds no
\* record.
C12_CurrentEndDateConflictRejected ==
    [][/\ \A r \in inflight' \ inflight :
             (r.res = "experience" /\ r.pc = "validated")
                => /\ ~(Get(r.data, "is_current", FALSE)
                          /\ Get(r.data, "end_date", NoDate) # NoDate)
                   /\ ~(~Get(r.data, "is_current", FALSE)
                          /\ Get(r.data, "end_date", NoDate) = NoDate)
       /\ (last' # last /\ last'.res = "experience" /\ last'.method = "POST"
             /\ inflight' = inflight)
             => last'.outcome = "ValidationFailed" /\ experience' = experience]_vars

\* A create with is_current true and an end_date was refused while a record
\* is stored.
C12_Witness ==
    /\ last.res = "experience" /\ last.method = "POST"
    /\ last.outcome = "ValidationFailed"
    /\ last.reason = "Cannot have end_date if position is current"
    /\ experience # {}

(***************************************************************************)
(* Lookups by profile name.                                                *)
(***************************************************************************)
\* the response of a lookup: the requested name, the name the error body
\* mentions ("" when there is no error body or it mentions none), and the
\* records returned
LookupResponse(res, caller, outcome, reason, name, error_name, results) ==
    [res |-> res, method |-> "GET", caller |-> caller, outcome |-> outcome,
     reason |-> reason, removed |-> 0, name |-> name, error_name |-> error_name,
     results |-> results]

\* GET /profiles/name/<name>/
profile_by_name(caller, name, cap) ==
    /\ CanStart(cap)
    /\ UNCHANGED <<store, nextId, inflight>>
    /\ last' =
         IF GetProfileByName(name) = OK
         THEN LookupResponse("profile_by_name", caller, "OK", OK, name, "",
                             ProfilesNamed(name))
         ELSE IF GetProfileByName(name) = "DoesNotExist"
         THEN LookupResponse("profile_by_name", caller, "NotFound",
                             "Profile with name does not exist", name, name, {})
         ELSE LookupResponse("profile_by_name", caller, "ServerError",
                             GetProfileByName(name), name, "", {})

\* GET /experience/profile/<name>/
experience_by_profile_name(caller, name, cap) ==
    /\ CanStart(cap)
    /\ UNCHANGED <<store, nextId, inflight>>
    /\ last' =
         IF ~Profile_IsAdminUserOrReadOnly("GET", caller)
         THEN LookupResponse("experience_by_profile_name", caller, "Forbidden",
                             "permission_denied", name, "", {})
         ELSE IF GetProfileByName(name) = OK
         THEN LookupResponse("experience_by_profile_name", caller, "OK", OK, name, "",
                             {r \in experience : r.profile = TheProfileNamed(name)})
         ELSE IF GetProfileByName(name) = "DoesNotExist"
         THEN LookupResponse("experience_by_profile_name", caller, "NotFound",
                             "Profile with name not found", name, name, {})
         ELSE LookupResponse("experience_by_profile_name", caller, "ServerError",
                             GetProfileByName(name), name, "", {})

\* GET /education/profile/name/<name>/
education_by_profile_name(caller, name, cap) ==
    /\ CanStart(cap)
    /\ UNCHANGED <<store, nextId, inflight>>
    /\ last' =
         IF GetProfileByName(name) = OK
         THEN LookupResponse("education_by_profile_name", caller, "OK", OK, name, "",
                             {r \in education : r.profile = TheProfileNamed(name)})
         ELSE IF GetProfileByName(name) = "DoesNotExist"
         THEN LookupResponse("education_by_profile_name", caller, "NotFound",
                             "Profile with name does not exist", name, name, {})
         ELSE LookupResponse("education_by_profile_name", caller, "ServerError",
                             "Failed to fetch education records", name, "", {})

LookupNames == ProfileNames \cup {"JOHN", "Jo"}

LookupOwnerPayloads ==
    {[name |-> "John", email |-> "john@example.com"],
     [name |-> "john", email |-> "jane@example.com"],
     [name |-> "Jane", email |-> "jane@example.com"]}

LookupExperienceCreates ==
    [profile_name : {"John", "Jane"}, company : {"Acme"}, start_date : {1},
     is_current : {TRUE}]

LookupEducationCreates ==
    [profile : ProfileIds, institution : {"MIT"}, degree : {"BSc"}, start_date : {1}]

NextLookup ==
    \/ \E d \in LookupOwnerPayloads : ProfileCreate("admin", d, 1)
    \/ \E r \in inflight : ProfileInsert(r)
    \/ \E d \in LookupExperienceCreates : ExperienceCreate("admin", d, 1)
    \/ \E r \in inflight : CreateResolve(r)
    \/ \E r \in inflight : ExperienceInsert(r)
    \/ \E d \in LookupEducationCreates : EducationCreate("admin", d, 1)
    \/ \E r \in inflight : EducationInsert(r)
    \/ \E n \in LookupNames : profile_by_name("anonymous", n, 1)
    \/ \E n \in LookupNames : experience_by_profile_name("anonymous", n, 1)
    \/ \E n \in LookupNames : education_by_profile_name("anonymous", n, 1)

SpecLookup == Init /\ [][NextLookup]_vars

ByNameEndpoints ==
    {"profile_by_name", "experience_by_profile_name", "education_by_profile_name"}

\* C13: a lookup by name matches the whole name ignoring case; when exactly
\* one profile matches, the response is OK and holds only that profile's
\* records; when none or several match, the response is NotFound and its
\* error names the requested name.
C13_NameLookup ==
    last.res \in ByNameEndpoints
       => IF Cardinality({p \in profiles : Lower(p.name) = Lower(last.name)}) = 1
          THEN /\ last.outcome = "OK"
               /\ \A p \in profiles : Lower(p.name) = Lower(last.name)
                     => IF last.res = "profile_by_name" THEN last.results = {p}
                        ELSE \A r \in last.results : r.profile = p.id
          ELSE /\ last.outcome = "NotFound"
               /\ last.error_name = last.name

(***************************************************************************)
(* Every CRUD endpoint with an admin and an anonymous client, one request  *)
(* at a time.                                                              *)
(***************************************************************************)
FrameCallers == {"admin", "anonymous"}

FrameProfileCreates == {[name |-> "John", email |-> "john@example.com"]}
FrameProfileUpdates == {[email |-> "john@example.com"]}
FrameEducationCreates ==
    [profile : {1}, institution : {"MIT"}, degree : {"BSc"}, start_date : {1}]
FrameEducationUpdates ==
    {[institution |-> "MIT", degree |-> "BSc", start_date |-> 1, end_date |-> e] :
        e \in {1, MaxDate}}
FrameExperienceCreates ==
    {[profile_name |-> "John", company |-> "Acme", start_date |-> 1, is_current |-> c] :
        c \in BOOLEAN}
FrameExperienceUpdates ==
    {[is_current |-> FALSE], [is_current |-> FALSE, end_date |-> MaxDate]}
FrameSkillCreates == {[profile_name |-> "John", name |-> "Python"]}
FrameSkillUpdates == {[name |-> "python"], [profile |-> 1, name |-> "Python"]}
FrameSocialLinkCreates ==
    {[profile_name |-> "John", link_type |-> "github", url |-> "https://x"]}
FrameSocialLinkUpdates ==
    {[link_type |-> "linkedin"], [profile |-> 1, link_type |-> "github"]}
FrameProjectCreates ==
    {[profile_name |-> "John", title |-> "API", technologies |-> <<"a">>,
      start_date |-> MaxDate, end_date |-> e] : e \in {NoDate, 1}}
FrameProjectUpdates == {[start_date |-> 1, end_date |-> e] : e \in {1, MaxDate}}

NextFrame ==
    \/ \E c \in FrameCallers, d \in FrameProfileCreates : ProfileCreate(c, d, 1)
    \/ \E r \in inflight : ProfileInsert(r)
    \/ \E id \in ProfileIds, d \in FrameProfileUpdates :
          ProfileUpdate("admin", id, TRUE, d, 1)
    \/ \E id \in ProfileIds : ProfileDelete("admin", id, 1)
    \/ \E r \in inflight : CreateResolve(r)
    \/ ChildCreates < MaxOwned
          /\ \E d \in FrameEducationCreates : EducationCreate("admin", d, 1)
    \/ \E r \in inflight : EducationInsert(r)
    \/ \E id \in RecordIds, d \in FrameEducationUpdates :
          EducationUpdate("admin", id, TRUE, d, 1)
    \/ \E id \in RecordIds : EducationDelete("admin", id, 1)
    \/ ChildCreates < MaxOwned
          /\ \E d \in FrameExperienceCreates : ExperienceCreate("admin", d, 1)
    \/ \E r \in inflight : ExperienceInsert(r)
    \/ \E id \in RecordIds, d \in FrameExperienceUpdates :
          ExperienceUpdate("admin", id, TRUE, d, 1)
    \/ \E c \in FrameCallers, id \in RecordIds : ExperienceDelete(c, id, 1)
    \/ ChildCreates < MaxOwned
          /\ \E d \in FrameSkillCreates : SkillCreate("admin", d, 1)
    \/ \E r \in inflight : SkillInsert(r)
    \/ \E c \in FrameCallers, id \in RecordIds, d \in FrameSkillUpdates :
          SkillUpdate(c, id, TRUE, d, 1)
    \/ \E id \in RecordIds : SkillDelete("admin", id, 1)
    \/ ChildCreates < MaxOwned
          /\ \E d \in FrameSocialLinkCreates : SocialLinkCreate("admin", d, 1)
    \/ \E r \in inflight : SocialLinkInsert(r)
    \/ \E id \in RecordIds, d \in FrameSocialLinkUpdates :
          SocialLinkUpdate("admin", id, TRUE, d, 1)
    \/ \E id \in RecordIds : SocialLinkDelete("admin", id, 1)
    \/ ChildCreates < MaxOwned
          /\ \E d \in FrameProjectCreates : ProjectCreate("admin", d, 1)
    \/ \E r \in inflight : ProjectInsert(r)
    \/ \E id \in RecordIds, d \in FrameProjectUpdates :
          ProjectUpdate("admin", id, TRUE, d, 1)
    \/ \E id \in RecordIds : ProjectDelete("admin", id, 1)

SpecFrame == Init /\ [][NextFrame]_vars

\* C14: a request that ends NotFound, ValidationFailed, Forbidden or Conflict
\* leaves every stored record of every resource unchanged.
C14_FailureLeavesStoreUnchanged ==
    [][(last' # last
          /\ last'.outcome \in {"NotFound", "ValidationFailed", "Forbidden", "Conflict"})
          => store' = store]_vars

\* An update was refused by validation while records are stored.
C14_Witness ==
    /\ last.outcome = "ValidationFailed" /\ last.method = "PATCH"
    /\ last.res = "skills" /\ skills # {}

(***************************************************************************)
(* Update rules against create rules.                                      *)
(***************************************************************************)
\* C15: the update path applies the rules of the create path. For
\* WorkExperience: an update of a stored record whose fields pass the
\* field-level checks is accepted by the detail serializer exactly when the
\* create serializer's rules accept the record the update results in.
C15_UpdateRulesAreCreateRules ==
    \A rec \in experience : \A partial \in BOOLEAN : \A d \in ExperienceUpdatePayloads :
        (/\ ~MissingRequired(d, WorkExperienceRequired, partial)
         /\ ("profile" \in DOMAIN d => HasRow(profiles, d.profile)))
           => ((WorkExperienceSerializer_validate(d) = OK)
                 <=> (WorkExperienceCreateSerializer_validate(Merge(rec, d)) = OK))

(***************************************************************************)
(* Education list with query parameters.                                   *)
(***************************************************************************)
\* the response of a list endpoint: the query parameters and the records
ListResponse(res, caller, query, results) ==
    [res |-> res, method |-> "GET", caller |-> caller, outcome |-> "OK",
     reason |-> OK, removed |-> 0, query |-> query, results |-> results]

Education_get_queryset_elif(q) ==
    IF Get(q, "profile", NoPk) # NoPk
    THEN {r \in education : r.profile = q.profile}
    ELSE IF Get(q, "institution", "") # ""
    THEN {r \in education : IContains(r.institution, q.institution)}
    ELSE IF Get(q, "degree", "") # ""
    THEN {r \in education : IContains(r.degree, q.degree)}
    ELSE IF Get(q, "field", "") # ""
    THEN {r \in education : IContains(r.field_of_study, q.field)}
    ELSE education

\* EducationListCreateView.get_queryset: each filter is applied when its
\* parameter is present and not empty
Education_get_queryset(q) ==
    {r \in education :
        /\ Get(q, "profile", NoPk) # NoPk => r.profile = q.profile
        /\ Get(q, "institution", "") # "" => IContains(r.institution, q.institution)
        /\ Get(q, "degree", "") # "" => IContains(r.degree, q.degree)
        /\ Get(q, "field", "") # "" => IContains(r.field_of_study, q.field)}

\* GET /education/?...
EducationList(caller, q, cap) ==
    /\ CanStart(cap)
    /\ UNCHANGED <<store, nextId, inflight>>
    /\ IF ~Education_IsAdminUserOrReadOnly("GET", caller)
       THEN Respond("education_list", "GET", caller, "Forbidden", "permission_denied")
       ELSE last' = ListResponse("education_list", caller, q, Education_get_queryset(q))

EducationListCreates ==
    {[profile |-> 1, institution |-> "MIT", degree |-> "BSc", field_of_study |-> "IT",
      start_date |-> 1],
     [profile |-> 1, institution |-> "Oxford", degree |-> "MSc", start_date |-> 1],
     [profile |-> MaxProfiles, institution |-> "MIT", degree |-> "MSc",
      field_of_study |-> "IT", start_date |-> 1]}

EducationQueries ==
    {Restrict(q, S) :
        q \in [profile : {1, MaxProfiles}, institution : {"mit", "or", ""},
               degree : {"sc", "B"}, field : {"it"}, ordering : {"zzz"}],
        S \in SUBSET {"profile", "institution", "degree", "field", "ordering"}}

NextEducationList ==
    \/ \E d \in OwnerPayloads : ProfileCreate("admin", d, 1)
    \/ \E r \in inflight : ProfileInsert(r)
    \/ \E d \in EducationListCreates : EducationCreate("admin", d, 1)
    \/ \E r \in inflight : EducationInsert(r)
    \/ \E q \in EducationQueries : EducationList("anonymous", q, 1)

SpecEducationList == Init /\ [][NextEducationList]_vars

WorkExperience_get_queryset_exact(q) ==
    {r \in experience :
        /\ Get(q, "company", "") # "" => IContains(r.company, q.company)
        /\ (Get(q, "current_only", "") # "" /\ q.current_only = "true")
              => r.is_current}

\* WorkExperienceListCreateView.get_queryset: the company and current_only
\* parameters
WorkExperience_get_queryset(q) ==
    {r \in experience :
        /\ Get(q, "company", "") # "" => IContains(r.company, q.company)
        /\ (Get(q, "current_only", "") # ""
              /\ LowerSeq(Chars(q.current_only)) = Chars("true"))
              => r.is_current}

\* GET /experience/?...
ExperienceList(caller, q, cap) ==
    /\ CanStart(cap)
    /\ UNCHANGED <<store, nextId, inflight>>
    /\ IF ~Profile_IsAdminUserOrReadOnly("GET", caller)
       THEN Respond("experience_list", "GET", caller, "Forbidden", "permission_denied")
       ELSE last' = ListResponse("experience_list", caller, q,
                                 WorkExperience_get_queryset(q))

ExperienceListCreates ==
    {[profile_name |-> "John", company |-> "Acme", start_date |-> 1, is_current |-> TRUE],
     [profile_name |-> "John", company |-> "MIT", start_date |-> 1, end_date |-> MaxDate,
      is_current |-> FALSE]}

ExperienceQueries ==
    {Restrict(q, S) :
        q \in [company : {"ac"},
               current_only : {"true", "True", "TRUE", "false", "1", ""}],
        S \in SUBSET {"company", "current_only"}}

NextExperienceList ==
    \/ \E d \in OwnerPayloads : ProfileCreate("admin", d, 1)
    \/ \E r \in inflight : ProfileInsert(r)
    \/ \E d \in ExperienceListCreates : ExperienceCreate("admin", d, 1)
    \/ \E r \in inflight : CreateResolve(r)
    \/ \E r \in inflight : ExperienceInsert(r)
    \/ \E q \in ExperienceQueries : ExperienceList("anonymous", q, 1)

SpecExperienceList == Init /\ [][NextExperienceList]_vars

\* C17: the WorkExperience list with current_only equal to "true" in any
\* letter case returns exactly the records with is_current true among those
\* the other parameters select; with current_only absent or of any other
\* value it returns what the same request without the flag returns.
C17_CurrentOnlyFlag ==
    last.res = "experience_list"
       => LET others == Restrict(last.query, DOMAIN last.query \ {"current_only"})
              unflagged == IF DOMAIN others = {} THEN experience
                           ELSE WorkExperience_get_queryset(others)
          IN IF /\ "current_only" \in DOMAIN last.query
                /\ last.query.current_only \in {"true", "True", "TRUE"}
             THEN last.results = {r \in unflagged : r.is_current}
             ELSE last.results = unflagged

\* current_only=True (capitalised) left out a record that is not current.
C17_Witness ==
    /\ last.res = "experience_list"
    /\ "current_only" \in DOMAIN last.query /\ last.query.current_only = "True"
    /\ last.results # experience /\ last.results # {}

(***************************************************************************)
(* Statistics.                                                             *)
(***************************************************************************)
StatsResponse(res, caller, stats) ==
    [res |-> res, method |-> "GET", caller |-> caller, outcome |-> "OK",
     reason |-> OK, removed |-> 0, stats |-> stats]

\* the number of records ever created: not lowered by a delete
total_experiences_created == nextId.experience - 1

\* WorkExperience.objects.count()
total_experiences == Cardinality(experience)

\* WorkExperience.objects.filter(is_current=True).count()
current_positions == Cardinality({r \in experience : r.is_current})

\* GET /experience/stats/
experience_stats(caller, cap) ==
    /\ CanStart(cap)
    /\ UNCHANGED <<store, nextId, inflight>>
    /\ IF ~Profile_IsAdminUserOrReadOnly("GET", caller)
       THEN Respond("experience_stats", "GET", caller, "Forbidden", "permission_denied")
       ELSE last' = StatsResponse("experience_stats", caller,
                       [total_experiences |-> total_experiences,
                        current_positions |-> current_positions,
                        past_positions |-> Cardinality({r \in experience : ~r.is_current}),
                        unique_companies |-> Cardinality({r.company : r \in experience})])

\* GET /profiles/stats/ (the counts of the tables modelled here)
ProfileStatsView_get(caller, cap) ==
    /\ CanStart(cap)
    /\ UNCHANGED <<store, nextId, inflight>>
    /\ last' = StatsResponse("profile_stats", caller,
                  [total_profiles |-> Cardinality(profiles),
                   total_skills |-> Cardinality(skills),
                   unique_skills |-> Cardinality({r.name : r \in skills}),
                   total_projects |-> Cardinality(projects),
                   total_work_experiences |-> Cardinality(experience),
                   total_social_links |-> Cardinality(links)])

\* all_links.filter(link_type=key).count(), per LINK_TYPES choice
link_type_distribution ==
    [t \in LinkTypes |-> Cardinality({r \in links : r.link_type = t})]

\* all_links.filter(link_type=key).values('profile').distinct().count()
profiles_by_platform ==
    [t \in LinkTypes |-> Cardinality({r.profile : r \in {x \in links : x.link_type = t}})]

\* Profile.objects.count()
total_profiles == Cardinality(profiles)

\* round((count / total) * 100, 1), held in tenths of a percent; no quotient
\* of the counts reachable here lies half-way between two tenths
coverage_percentage(count, total) == (count * 2000 + total) \div (2 * total)

\* platform_coverage: filled only when total_profiles > 0
platform_coverage(by_platform, total) ==
    IF total > 0
    THEN [t \in DOMAIN by_platform |-> coverage_percentage(by_platform[t], total)]
    ELSE <<>>

\* GET /social-links/stats/
social_stats(caller, cap) ==
    /\ CanStart(cap)
    /\ UNCHANGED <<store, nextId, inflight>>
    /\ IF ~Profile_IsAdminUserOrReadOnly("GET", caller)
       THEN Respond("social_stats", "GET", caller, "Forbidden", "permission_denied")
       ELSE last' = StatsResponse("social_stats", caller,
                       [total_links |-> Cardinality(links),
                        unique_link_types |-> Cardinality({r.link_type : r \in links}),
                        profiles_with_links |-> Cardinality({r.profile : r \in links}),
                        total_profiles |-> total_profiles,
                        link_type_distribution |-> link_type_distribution,
                        profiles_by_platform |-> profiles_by_platform,
                        platform_coverage |->
                            platform_coverage(profiles_by_platform, total_profiles)])

StatsExperienceCreates ==
    {[profile_name |-> "John", company |-> "Acme", start_date |-> 1, is_current |-> TRUE],
     [profile_name |-> "Jane", company |-> "MIT", start_date |-> 1, end_date |-> MaxDate,
      is_current |-> FALSE]}
StatsExperienceUpdates == {[is_current |-> FALSE, end_date |-> MaxDate]}
StatsSkillCreates == [profile_name : {"John"}, name : SkillNames]
StatsSocialLinkCreates ==
    [profile_name : {"John", "Jane"}, link_type : {"github"}, url : {"https://x"}]

NextStats ==
    \/ \E d \in OwnerPayloads : ProfileCreate("admin", d, 1)
    \/ \E r \in inflight : ProfileInsert(r)
    \/ \E id \in ProfileIds : ProfileDelete("admin", id, 1)
    \/ \E r \in inflight : CreateResolve(r)
    \/ ChildCreates < MaxOwned
          /\ \E d \in StatsExperienceCreates : ExperienceCreate("admin", d, 1)
    \/ \E r \in inflight : ExperienceInsert(r)
    \/ \E id \in RecordIds, d \in StatsExperienceUpdates :
          ExperienceUpdate("admin", id, TRUE, d, 1)
    \/ \E id \in RecordIds : ExperienceDelete("admin", id, 1)
    \/ ChildCreates < MaxOwned
          /\ \E d \in StatsSkillCreates : SkillCreate("admin", d, 1)
    \/ \E r \in inflight : SkillInsert(r)
    \/ \E id \in RecordIds : SkillDelete("admin", id, 1)
    \/ ChildCreates < MaxOwned
          /\ \E d \in StatsSocialLinkCreates : SocialLinkCreate("admin", d, 1)
    \/ \E r \in inflight : SocialLinkInsert(r)
    \/ \E id \in RecordIds : SocialLinkDelete("admin", id, 1)
    \/ experience_stats("anonymous", 1)
    \/ ProfileStatsView_get("anonymous", 1)
    \/ social_stats("anonymous", 1)

SpecStats == Init /\ [][NextStats]_vars

\* C18: a statistics response equals the counts over the records stored
\* when it is given, after any sequence of creates, updates and deletes.
C18_StatsFromCurrentStore ==
    [][/\ last'.res = "experience_stats"
             => /\ last'.stats.total_experiences = Cardinality(experience')
                /\ last'.stats.current_positions
                      = Cardinality({r \in experience' : r.is_current})
                /\ last'.stats.past_positions
                      = Cardinality({r \in experience' : ~r.is_current})
       /\ last'.res = "profile_stats"
             => /\ last'.stats.total_profiles = Cardinality(profiles')
                /\ last'.stats.total_skills = Cardinality(skills')
                /\ last'.stats.total_work_experiences = Cardinality(experience')
                /\ last'.stats.total_social_links = Cardinality(links')
       /\ last'.res = "social_stats"
             => last'.stats.total_links = Cardinality(links')]_vars

\* Statistics were read after a current position had been ended or removed.
C18_Witness ==
    /\ last.res = "experience_stats"
    /\ last.stats.total_experiences >= 1
    /\ last.stats.current_positions = 0
    /\ last.stats.total_experiences + 1 < nextId.experience

\* ---------------------------------------------------------------------------
\* Project statistics: the most used technologies.
\* The technologies field is a sequence of characters, so that splitting on
\* commas and stripping blanks are computed as the view computes them.
\* ---------------------------------------------------------------------------

\* sorted_techs[:10]
TopTechnologies == 10

MaxTechLen == 3

TechAlphabet == {"a", "b", ",", " "}

TechStrings == UNION {[1..n -> TechAlphabet] : n \in 0..MaxTechLen}

\* a project that uses eleven technologies, one more than the list holds
ManyTechnologies ==
    <<"a", ",", "b", ",", "c", ",", "d", ",", "e", ",", "f", ",",
      "g", ",", "h", ",", "i", ",", "j", ",", "k">>

SecondTechnologies == {<<"b", ",", " ", "a", " ">>, <<"k", ",", "k", ",", "j">>, <<>>}

ProjectRow(id, technologies) ==
    [id |-> id, profile |-> 1, title |-> "Site", start_date |-> NoDate,
     end_date |-> NoDate, technologies |-> technologies, is_featured |-> FALSE]

InitProjectStats ==
    /\ profiles = {[id |-> 1, name |-> "John", email |-> "john@example.com"]}
    /\ education = {} /\ experience = {} /\ skills = {} /\ links = {}
    /\ \E t1 \in TechStrings, t2 \in SecondTechnologies, many \in BOOLEAN :
          projects = {ProjectRow(1, t1), ProjectRow(2, t2)}
                        \cup (IF many THEN {ProjectRow(3, ManyTechnologies)} ELSE {})
    /\ nextId = [profile |-> 2, education |-> 1, experience |-> 1, skills |-> 1,
                 projects |-> 4, social |-> 1]
    /\ inflight = {}
    /\ last = Response("none", "GET", "anonymous", "OK", OK, 0)

\* Project.objects.exclude(technologies='').exclude(technologies__isnull=True)
all_projects == {p \in projects : p.technologies # <<>>}

\* The orders in which the queryset may hand out the projects: Meta.ordering
\* leaves the order of projects with equal sort keys to the database.
ProjectOrders ==
    {order \in [1..Cardinality(all_projects) -> all_projects] :
        \A i, j \in DOMAIN order : i # j => order[i] # order[j]}

RECURSIVE TokensOf(_, _)
\* the tokens met by the two nested loops, in the order they are met
TokensOf(order, n) ==
    IF n = 0 THEN <<>> ELSE TokensOf(order, n - 1) \o techs(order[n].technologies)

\* technology_count after the loops
technology_count(tokens) ==
    [tech \in {tokens[i] : i \in DOMAIN tokens} |->
        Cardinality({i \in DOMAIN tokens : tokens[i] = tech})]

\* a key enters the dict the first time it is counted
KeyAdded(keys, tech) ==
    IF \E i \in DOMAIN keys : keys[i] = tech THEN keys ELSE Append(keys, tech)

RECURSIVE Keys(_, _)
\* the keys of the dict in insertion order
Keys(tokens, n) ==
    IF n = 0 THEN <<>> ELSE KeyAdded(Keys(tokens, n - 1), tokens[n])

\* place of an item among those already sorted: behind every item that does
\* not sort after it, which keeps the sort stable
Placed(before, tech, k) ==
    SubSeq(before, 1, k) \o <<tech>> \o SubSeq(before, k + 1, Len(before))

PlacedDescending(before, tech, count) ==
    Placed(before, tech,
           Cardinality({i \in DOMAIN before : count[before[i]] >= count[tech]}))

RECURSIVE sorted_techs(_, _, _)
\* sorted(technology_count.items(), key=lambda x: x[1], reverse=True): stable,
\* so equal counts keep their insertion order
sorted_techs(keys, count, n) ==
    IF n = 0 THEN <<>>
    ELSE PlacedDescending(sorted_techs(keys, count, n - 1), keys[n], count)

\* sorted_techs[:10] as the list of {'technology', 'count'} entries
FirstTen(sorted, count) ==
    [i \in 1..(IF Len(sorted) < TopTechnologies THEN Len(sorted) ELSE TopTechnologies) |->
        [technology |-> sorted[i], count |-> count[sorted[i]]]]

Ranked(keys, count) == FirstTen(sorted_techs(keys, count, Len(keys)), count)

Counted(tokens) == Ranked(Keys(tokens, Len(tokens)), technology_count(tokens))

top_technologies(order) == Counted(TokensOf(order, Len(order)))

project_stats(caller, cap) ==
    /\ CanStart(cap)
    /\ UNCHANGED <<store, nextId, inflight>>
    /\ IF ~IsAdminUserOrReadOnly("GET", caller)
       THEN Respond("project_stats", "GET", caller, "Forbidden", "permission_denied")
       ELSE \E order \in ProjectOrders :
               last' = StatsResponse("project_stats", caller,
                           [total_projects |-> Cardinality(projects),
                            top_technologies |-> top_technologies(order)])

NextProjectStats == \E caller \in {"anonymous", "admin"} : project_stats(caller, 1)

SpecProjectStats == InitProjectStats /\ [][NextProjectStats]_vars

\* The pieces of a technologies field between commas, as index pairs: a piece
\* starts at the first character or behind a comma and runs up to the next
\* comma or the end (from i to i - 1 if it is empty).
PieceEnd(s, i) ==
    CHOOSE j \in (i - 1)..Len(s) :
        /\ j = Len(s) \/ s[j + 1] = ","
        /\ \A k \in i..j : s[k] # ","

Pieces(s) ==
    {<<i, PieceEnd(s, i)>> : i \in {1} \cup {k + 1 : k \in {c \in DOMAIN s : s[c] = ","}}}

\* The piece without the blanks around it; <<>> if it holds blanks only.
Trimmed(s, piece) ==
    LET inked == {i \in piece[1]..piece[2] : s[i] # " "}
    IN  IF inked = {} THEN <<>>
        ELSE SubSeq(s, CHOOSE i \in inked : \A j \in inked : i <= j,
                       CHOOSE i \in inked : \A j \in inked : i >= j)

\* Number of occurrences of tech as a trimmed non-empty token over all projects.
Occurrences(tech) ==
    Cardinality(UNION {{<<p.id, piece>> :
                          piece \in {q \in Pieces(p.technologies) :
                                        Trimmed(p.technologies, q) = tech}} :
                       p \in projects})

Technologies ==
    UNION {{Trimmed(p.technologies, piece) : piece \in Pieces(p.technologies)} :
           p \in projects} \ {<<>>}

Listed(top) == {top[i].technology : i \in DOMAIN top}

\* C19: the top_technologies of a project_stats response has at most 10
\* entries, in non-increasing order of count; the count of each entry is the
\* number of occurrences of its technology as a trimmed non-empty token of the
\* comma-separated technologies fields of all projects; and no technology that
\* is left out has a higher count than one that is listed.
C19_TopTechnologies ==
    (last.res = "project_stats" /\ last.outcome = "OK") =>
        LET top == last.stats.top_technologies
        IN  /\ Len(top) <= 10
            /\ \A i \in 1..(Len(top) - 1) : top[i].count >= top[i + 1].count
            /\ \A i \in DOMAIN top :
                  /\ top[i].technology # <<>>
                  /\ top[i].count = Occurrences(top[i].technology)
            /\ \A tech \in Technologies \ Listed(top) :
                  \A i \in DOMAIN top : Occurrences(tech) <= top[i].count

C19_Witness ==
    /\ last.res = "project_stats" /\ last.outcome = "OK"
    /\ Len(last.stats.top_technologies) = 10
    /\ Technologies \ Listed(last.stats.top_technologies) # {}
    /\ last.stats.top_technologies[1].count = 3
    /\ last.stats.top_technologies[10].count = 1
    /\ \E p \in projects : p.technologies # <<>> /\ Head(p.technologies) = " "

\* ---------------------------------------------------------------------------
\* Profile writes by a client without a credential and by an admin client,
\* one request at a time, as the API tests of profile_api issue them.
\* ---------------------------------------------------------------------------

ProfileWriteCallers == {"anonymous", "admin"}

\* name, email supplied as in the tests' request bodies
ProfileWritePayloads == [name : ProfileNames, email : Emails]

NextProfileWrites ==
    \/ \E c \in ProfileWriteCallers, d \in ProfileWritePayloads : ProfileCreate(c, d, 1)
    \/ \E r \in inflight : ProfileInsert(r)
    \/ \E c \in ProfileWriteCallers, id \in ProfileIds, d \in ProfileWritePayloads :
          ProfileUpdate(c, id, FALSE, d, 1)
    \/ \E c \in ProfileWriteCallers, id \in ProfileIds : ProfileDelete(c, id, 1)

SpecProfileWrites == Init /\ [][NextProfileWrites]_vars

\* C20: a client that presents no credential can create a profile with POST
\* (the response is Created and the number of profiles rises by one), change
\* it with PUT and remove it with DELETE (the number of profiles drops by
\* one): no such request is refused for want of a credential.
C20_AnonymousWritesProfiles ==
    [][(last' # last /\ last'.res = "profile" /\ last'.caller = "anonymous"
          /\ last'.method \in {"POST", "PUT", "DELETE"})
          => /\ last'.outcome # "Forbidden"
             /\ last'.outcome = "Created"
                   => Cardinality(profiles') = Cardinality(profiles) + 1
             /\ last'.outcome = "NoContent"
                   => Cardinality(profiles') = Cardinality(profiles) - 1]_vars

\* ---------------------------------------------------------------------------
\* The Skill list endpoint: filters, order of the rows, projection.
\* ---------------------------------------------------------------------------

\* The orders in which a queryset without ORDER BY may hand out its rows:
\* the store promises none.
Unordered(rows) ==
    {order \in [1..Cardinality(rows) -> rows] :
        \A i, j \in DOMAIN order : i # j => order[i] # order[j]}

NameOfProfile(pid) == Row(profiles, pid).name

\* Skill.get_level_display(): the label of SKILL_LEVELS
get_level_display(level) ==
    CASE level = "beginner" -> "Beginner"
      [] level = "intermediate" -> "Intermediate"
      [] level = "advanced" -> "Advanced"
      [] level = "expert" -> "Expert"
      [] OTHER -> level

\* SkillSummarySerializer.Meta.fields
SkillSummarySerializer_data(r) ==
    [id |-> r.id, profile_name |-> NameOfProfile(r.profile), name |-> r.name,
     level |-> r.level, level_display |-> get_level_display(r.level),
     category |-> r.category]

\* SkillSerializer.Meta.fields
SkillSerializer_data(r) ==
    [id |-> r.id, profile |-> r.profile, profile_name |-> NameOfProfile(r.profile),
     name |-> r.name, level |-> r.level, level_display |-> get_level_display(r.level),
     category |-> r.category]

\* summary and summary.lower() == 'true'
IsTrue(flag) == LowerSeq(Chars(flag)) = Chars("true")

\* SkillListCreateView.get_serializer_class: decided by the method alone; the
\* serializer_class attribute that get_queryset sets is never read
Skill_get_serializer_class(method, q) ==
    IF method = "POST" THEN "SkillCreateSerializer" ELSE "SkillSerializer"

\* SkillListCreateView.get_queryset: the filters
Skill_filter(q) ==
    {r \in skills :
        /\ Get(q, "profile_name", "") # ""
              => IContains(NameOfProfile(r.profile), q.profile_name)
        /\ Get(q, "level", "") # "" => r.level = q.level
        /\ Get(q, "category", "") # "" => IContains(r.category, q.category)
        /\ Get(q, "skill_name", "") # "" => IContains(r.name, q.skill_name)
        /\ Get(q, "search", "") # ""
              => \/ IContains(r.name, q.search)
                 \/ IContains(r.category, q.search)
                 \/ IContains(NameOfProfile(r.profile), q.search)}

\* SkillListCreateView.get_queryset: Skill.Meta declares no ordering and no
\* order_by is applied
Skill_get_queryset(rows) == Unordered(rows)

Skill_to_representation(class, r) ==
    IF class = "SkillSummarySerializer" THEN SkillSummarySerializer_data(r)
    ELSE SkillSerializer_data(r)

\* GET /skills/?...
SkillList(caller, q, cap) ==
    /\ CanStart(cap)
    /\ UNCHANGED <<store, nextId, inflight>>
    /\ IF ~Profile_IsAdminUserOrReadOnly("GET", caller)
       THEN Respond("skills_list", "GET", caller, "Forbidden", "permission_denied")
       ELSE \E order \in Skill_get_queryset(Skill_filter(q)) :
               last' = ListResponse("skills_list", caller, q,
                          [i \in DOMAIN order |->
                              Skill_to_representation(Skill_get_serializer_class("GET", q),
                                                      order[i])])

SkillListCreates ==
    [profile_name : {"John"}, name : {"Python", "Go"}, category : {"Web", "Data"},
     level : {"expert"}]

SkillQueries ==
    {<<>>, [summary |-> "true"], [summary |-> "True"], [summary |-> "false"],
     [category |-> "we"], [skill_name |-> "py"], [search |-> "da"],
     [level |-> "expert"], [profile_name |-> "jo"]}

NextSkillList ==
    \/ \E d \in OwnerPayloads : ProfileCreate("admin", d, 1)
    \/ \E r \in inflight : ProfileInsert(r)
    \/ \E d \in SkillListCreates : SkillCreate("admin", d, 1)
    \/ \E r \in inflight : CreateResolve(r)
    \/ \E r \in inflight : SkillInsert(r)
    \/ \E q \in SkillQueries : SkillList("anonymous", q, 1)

SpecSkillList == Init /\ [][NextSkillList]_vars

\* C21: a read of the Skill records that asks for no order returns them
\* ordered by category and then by name, whatever the insertion order.
C21_SkillsOrderedByCategoryThenName ==
    (last.res = "skills_list" /\ last.outcome = "OK" /\ DOMAIN last.query = {}) =>
        \A i, j \in DOMAIN last.results :
            i < j => ~(\/ StrBefore(last.results[j].category, last.results[i].category)
                       \/ /\ last.results[j].category = last.results[i].category
                          /\ StrBefore(last.results[j].name, last.results[i].name))

\* ---------------------------------------------------------------------------
\* Default ordering of Education and Project rows (Meta.ordering), read and
\* written through the model managers as the model tests do.
\* ---------------------------------------------------------------------------

\* Education.objects.create(...)
Education_objects_create(d) ==
    /\ CanStart(1)
    /\ nextId.education <= MaxRecords
    /\ ForeignKeyHolds(d.profile)
    /\ education' = education \cup
          {[id |-> nextId.education, profile |-> d.profile, institution |-> d.institution,
            degree |-> d.degree, field_of_study |-> "", start_date |-> d.start_date,
            end_date |-> NoDate, grade |-> ""]}
    /\ nextId' = [nextId EXCEPT !.education = @ + 1]
    /\ Respond("education", "create", "none", "Created", OK)
    /\ UNCHANGED <<profiles, experience, skills, projects, links, inflight>>

\* Project.objects.create(...)
Project_objects_create(d) ==
    /\ CanStart(1)
    /\ nextId.projects <= MaxRecords
    /\ ForeignKeyHolds(d.profile)
    /\ projects' = projects \cup
          {[id |-> nextId.projects, profile |-> d.profile, title |-> d.title,
            start_date |-> d.start_date, end_date |-> NoDate, technologies |-> <<>>,
            is_featured |-> d.is_featured]}
    /\ nextId' = [nextId EXCEPT !.projects = @ + 1]
    /\ Respond("projects", "create", "none", "Created", OK)
    /\ UNCHANGED <<profiles, education, experience, skills, links, inflight>>

\* ORDER BY start_date DESC: a row without a start date sorts before every
\* dated row on stores that put NULL first in a descending sort, behind
\* every dated row on the others
DateDescending(a, b, nulls_first) ==
    IF a = NoDate THEN b # NoDate /\ nulls_first
    ELSE IF b = NoDate THEN ~nulls_first
    ELSE a > b

\* row a has to come before row b under ordering = ['-start_date']
Education_before(a, b, nulls_first) == DateDescending(a.start_date, b.start_date, nulls_first)

\* ordering = ['-is_featured', '-start_date'] without its first key
Project_before_bydate(a, b, nulls_first) ==
    DateDescending(a.start_date, b.start_date, nulls_first)

\* row a has to come before row b under ordering = ['-is_featured', '-start_date']
Project_before(a, b, nulls_first) ==
    \/ a.is_featured /\ ~b.is_featured
    \/ /\ a.is_featured = b.is_featured
       /\ DateDescending(a.start_date, b.start_date, nulls_first)

\* Education.objects.all(): rows with equal keys come in any order
Education_objects_all ==
    {order \in Unordered(education) :
        \E nulls_first \in BOOLEAN :
            \A i, j \in DOMAIN order :
                i < j => ~Education_before(order[j], order[i], nulls_first)}

\* Project.objects.all()
Project_objects_all ==
    {order \in Unordered(projects) :
        \E nulls_first \in BOOLEAN :
            \A i, j \in DOMAIN order :
                i < j => ~Project_before(order[j], order[i], nulls_first)}

\* list(Education.objects.all())
EducationAll ==
    /\ CanStart(1)
    /\ UNCHANGED <<store, nextId, inflight>>
    /\ \E order \in Education_objects_all :
          last' = ListResponse("education_all", "none", <<>>, order)

\* list(Project.objects.all())
ProjectAll ==
    /\ CanStart(1)
    /\ UNCHANGED <<store, nextId, inflight>>
    /\ \E order \in Project_objects_all :
          last' = ListResponse("projects_all", "none", <<>>, order)

OrderingEducationCreates ==
    [profile : {1}, institution : {"MIT"}, degree : {"BSc"}, start_date : Dates]

OrderingProjectCreates ==
    [profile : {1}, title : {"Site"}, start_date : Dates \cup {NoDate},
     is_featured : BOOLEAN]

NextOrdering ==
    \/ ProfileCreate("admin", [name |-> "John", email |-> "john@example.com"], 1)
    \/ \E r \in inflight : ProfileInsert(r)
    \/ \E d \in OrderingEducationCreates : Education_objects_create(d)
    \/ \E d \in OrderingProjectCreates : Project_objects_create(d)
    \/ EducationAll
    \/ ProjectAll

SpecOrdering == Init /\ [][NextOrdering]_vars

\* C22: whatever the insertion order, Education rows are read by default in
\* descending order of start_date, and Project rows featured first and, among
\* rows of equal featuredness, in descending order of start_date.
C22_DefaultOrdering ==
    /\ (last.res = "education_all" /\ last.outcome = "OK") =>
          \A i, j \in DOMAIN last.results :
              i < j => last.results[i].start_date >= last.results[j].start_date
    /\ (last.res = "projects_all" /\ last.outcome = "OK") =>
          \A i, j \in DOMAIN last.results :
              i < j =>
                 /\ last.results[j].is_featured => last.results[i].is_featured
                 /\ (/\ last.results[i].is_featured = last.results[j].is_featured
                     /\ last.results[i].start_date # NoDate
                     /\ last.results[j].start_date # NoDate)
                       => last.results[i].start_date >= last.results[j].start_date

\* Two projects come back with the later-inserted, featured and older one first.
C22_Witness ==
    /\ last.res = "projects_all" /\ Len(last.results) >= 2
    /\ last.results[1].id > last.results[2].id
    /\ last.results[1].is_featured /\ ~last.results[2].is_featured
    /\ last.results[1].start_date # NoDate
    /\ last.results[1].start_date < last.results[2].start_date
    /\ Cardinality(education) >= 2

\* ---------------------------------------------------------------------------
\* Child creates by profile_name, one request at a time, with profiles whose
\* names may differ in case only.
\* ---------------------------------------------------------------------------

OwnerNames == {"JOHN", "Jane", "Nobody"}

ByNameExperienceCreates ==
    [profile_name : OwnerNames, company : {"Acme"}, start_date : {1}, is_current : {TRUE}]
ByNameSkillCreates == [profile_name : OwnerNames, name : {"Python"}]
ByNameProjectCreates == [profile_name : OwnerNames, title : {"API"}, technologies : {<<"a">>}]
ByNameSocialLinkCreates ==
    [profile_name : OwnerNames, link_type : {"github"}, url : {"https://x"}]

NextByName ==
    \/ \E d \in LookupOwnerPayloads : ProfileCreate("admin", d, 1)
    \/ \E r \in inflight : ProfileInsert(r)
    \/ \E id \in ProfileIds : ProfileDelete("admin", id, 1)
    \/ ChildCreates < MaxOwned /\ \E d \in ByNameExperienceCreates : ExperienceCreate("admin", d, 1)
    \/ ChildCreates < MaxOwned /\ \E d \in ByNameSkillCreates : SkillCreate("admin", d, 1)
    \/ ChildCreates < MaxOwned /\ \E d \in ByNameProjectCreates : ProjectCreate("admin", d, 1)
    \/ ChildCreates < MaxOwned /\ \E d \in ByNameSocialLinkCreates : SocialLinkCreate("admin", d, 1)
    \/ \E r \in inflight : CreateResolve(r)
    \/ \E r \in inflight : ExperienceInsert(r)
    \/ \E r \in inflight : SkillInsert(r)
    \/ \E r \in inflight : ProjectInsert(r)
    \/ \E r \in inflight : SocialLinkInsert(r)

SpecByName == Init /\ [][NextByName]_vars

ByNameResources == {"experience", "skills", "projects", "social"}

\* the rows of table' that table did not hold under any id
Added(table, after) == {row \in after : \A old \in table : old.id # row.id}

\* the record is owned by the one profile that the request's name matches
OwnedByNamed(row, requests) ==
    \E r \in requests :
        /\ Cardinality(ProfilesNamed(r.data.profile_name)) = 1
        /\ row.profile = TheProfileNamed(r.data.profile_name)

\* C23: a create of a Skill, SocialLink, WorkExperience or Project whose
\* profile_name matches no profile is not accepted, is answered with a
\* validation error and adds no record; a record that a create adds is owned
\* by the one profile that its profile_name matches ignoring case.
C23_CreateByProfileName ==
    [][/\ \A r \in inflight' \ inflight :
             (r.res \in ByNameResources /\ r.pc = "validated")
                => ProfilesNamed(r.data.profile_name) # {}
       /\ (last' # last /\ last'.reason = "Profile does not exist")
             => (last'.outcome = "ValidationFailed" /\ store' = store /\ inflight' = inflight)
       /\ (last' # last /\ last'.res \in ByNameResources
             /\ last'.outcome = "ValidationFailed") => store' = store
       /\ \A row \in Added(experience, experience') :
             OwnedByNamed(row, {r \in inflight \ inflight' : r.res = "experience"})
       /\ \A row \in Added(skills, skills') :
             OwnedByNamed(row, {r \in inflight \ inflight' : r.res = "skills"})
       /\ \A row \in Added(projects, projects') :
             OwnedByNamed(row, {r \in inflight \ inflight' : r.res = "projects"})
       /\ \A row \in Added(links, links') :
             OwnedByNamed(row, {r \in inflight \ inflight' : r.res = "social"})]_vars

\* A link asked for under the name "JOHN" was stored for the profile "john".
C23_Witness ==
    /\ last.res = "social" /\ last.method = "POST" /\ last.outcome = "Created"
    /\ \E l \in links : HasRow(profiles, l.profile) /\ Row(profiles, l.profile).name = "john"

\* ---------------------------------------------------------------------------
\* Full updates (PUT) that keep the record's own unique key.
\* ---------------------------------------------------------------------------

SelfSkillPuts == [profile : 1..2, name : SkillNames, category : {"Web"}]
SelfSkillPatches == [profile : {1}]
SelfSkillCreates ==
    {[profile_name |-> "John", name |-> "Python"], [profile_name |-> "Jane", name |-> "python"]}
SelfSocialLinkPuts ==
    [profile : {1}, link_type : LinkTypes, url : {"https://y"}]
SelfProfilePuts == [name : {"Jane"}, email : Emails]

NextSelfUpdate ==
    \/ \E d \in OwnerPayloads : ProfileCreate("admin", d, 1)
    \/ \E r \in inflight : ProfileInsert(r)
    \/ \E id \in 1..2, d \in SelfProfilePuts : ProfileUpdate("admin", id, FALSE, d, 1)
    \/ ChildCreates < MaxOwned /\ \E d \in SelfSkillCreates : SkillCreate("admin", d, 1)
    \/ ChildCreates < MaxOwned
          /\ \E d \in CascadeSocialLinkCreates : SocialLinkCreate("admin", d, 1)
    \/ \E r \in inflight : CreateResolve(r)
    \/ \E r \in inflight : SkillInsert(r)
    \/ \E r \in inflight : SocialLinkInsert(r)
    \/ \E id \in RecordIds, d \in SelfSkillPuts : SkillUpdate("admin", id, FALSE, d, 1)
    \/ \E id \in RecordIds, d \in SelfSkillPatches : SkillUpdate("admin", id, TRUE, d, 1)
    \/ \E id \in RecordIds, d \in SelfSocialLinkPuts :
          SocialLinkUpdate("admin", id, FALSE, d, 1)

SpecSelfUpdate == Init /\ [][NextSelfUpdate]_vars

\* C24: a PUT that keeps the record's own unique key is never rejected as a
\* duplicate of the record itself: on a Skill with its current profile and
\* name, on a SocialLink with its current profile and link_type, and on a
\* Profile with its current email, the PUT succeeds and stores the other
\* fields it carries.
C24_OwnKeyIsNoDuplicate ==
    [][/\ \A rec \in skills, d \in SelfSkillPuts :
             (/\ d.profile = rec.profile /\ d.name = rec.name
              /\ SkillUpdate("admin", rec.id, FALSE, d, 1))
                => /\ last'.outcome = "OK"
                   /\ skills' = (skills \ {rec}) \cup {[rec EXCEPT !.category = d.category]}
       /\ \A rec \in links, d \in SelfSocialLinkPuts :
             (/\ d.profile = rec.profile /\ d.link_type = rec.link_type
              /\ SocialLinkUpdate("admin", rec.id, FALSE, d, 1))
                => /\ last'.outcome = "OK"
                   /\ links' = (links \ {rec}) \cup {[rec EXCEPT !.url = d.url]}
       /\ \A rec \in profiles, d \in SelfProfilePuts :
             (/\ d.email = rec.email
              /\ ProfileUpdate("admin", rec.id, FALSE, d, 1))
                => /\ last'.outcome = "OK"
                   /\ profiles' = (profiles \ {rec}) \cup {[rec EXCEPT !.name = d.name]}]_vars

\* ---------------------------------------------------------------------------
\* Project creates that carry technologies as a list, as a string, or both.
\* ---------------------------------------------------------------------------

TechItems == {<<"a">>, <<"a", "b">>, <<"b">>}

TechLists == UNION {[1..n -> TechItems] : n \in 1..2}

TechnologiesCreates ==
    [profile_name : {"John"}, title : {"API"}, technologies_list : TechLists]
    \cup [profile_name : {"John"}, title : {"API"}, technologies_list : TechLists,
          technologies : {<<"b">>}]
    \cup [profile_name : {"John"}, title : {"API"},
          technologies : {<<"a", ",", "b">>, <<" ">>}]

NextTechnologies ==
    \/ ProfileCreate("admin", [name |-> "John", email |-> "john@example.com"], 1)
    \/ \E r \in inflight : ProfileInsert(r)
    \/ \E d \in TechnologiesCreates : ProjectCreate("admin", d, 1)
    \/ \E r \in inflight : CreateResolve(r)
    \/ \E r \in inflight : ProjectInsert(r)

SpecTechnologies == Init /\ [][NextTechnologies]_vars

\* the items of the list in the order given occur in the stored string
Holds(technologies, items) ==
    \A i \in DOMAIN items :
        \E k \in 0..(Len(technologies) - Len(items[i])) :
            SubSeq(technologies, k + 1, k + Len(items[i])) = items[i]

\* C25: a Project create that carries a technologies_list and no technologies
\* string (for an existing profile, by an admin) is carried out; the stored
\* technologies string contains every item of the list, and the
\* technologies_list read back from the stored project is the list given.
C25_TechnologiesListRoundTrip ==
    [][/\ \A d \in TechnologiesCreates :
             (/\ "technologies" \notin DOMAIN d
              /\ profiles # {}
              /\ ProjectCreate("admin", d, 1))
                => \E r \in inflight' \ inflight : r.res = "projects" /\ r.data = d
       /\ \A r \in inflight \ inflight' :
             (/\ r.res = "projects" /\ r.pc = "resolved"
              /\ "technologies" \notin DOMAIN r.data)
                => \A row \in Added(projects, projects') :
                      /\ Holds(row.technologies, r.data.technologies_list)
                      /\ get_technologies_list(row) = r.data.technologies_list]_vars

\* ---------------------------------------------------------------------------
\* The three definitions of the permission class, asked about every request
\* method and caller while profiles come and go.
\* ---------------------------------------------------------------------------

Methods == SafeMethods \cup WriteMethods

\* has_permission(request, view) of the three classes for one request
has_permission(method, caller, cap) ==
    /\ CanStart(cap)
    /\ UNCHANGED <<store, nextId, inflight>>
    /\ last' = [res |-> "has_permission", method |-> method, caller |-> caller,
                outcome |-> "OK", reason |-> OK, removed |-> 0,
                me_API |-> IsAdminUserOrReadOnly(method, caller),
                profile_api |-> Profile_IsAdminUserOrReadOnly(method, caller),
                education_api |-> Education_IsAdminUserOrReadOnly(method, caller)]

NextPermissions ==
    \/ \E m \in Methods, c \in Callers : has_permission(m, c, 1)
    \/ \E c \in Callers, d \in OwnerPayloads : ProfileCreate(c, d, 1)
    \/ \E r \in inflight : ProfileInsert(r)
    \/ \E c \in Callers, id \in ProfileIds : ProfileDelete(c, id, 1)

SpecPermissions == Init /\ [][NextPermissions]_vars

\* C26: for every request method and every caller the permission classes of
\* me_API.permissions, profile_api.views and education_api.views decide alike:
\* a safe method is permitted, any other method only for an admin.
C26_PermissionClassesAgree ==
    last.res = "has_permission" =>
        /\ last.me_API = last.profile_api
        /\ last.profile_api = last.education_api
        /\ last.me_API = (last.method \in {"GET", "HEAD", "OPTIONS"} \/ last.caller = "admin")

\* All three refuse a DELETE by an authenticated caller who is not an admin.
C26_Witness ==
    /\ last.res = "has_permission" /\ last.method = "DELETE" /\ last.caller = "user"
    /\ ~last.me_API /\ ~last.profile_api /\ ~last.education_api
    /\ profiles # {}

\* ---------------------------------------------------------------------------
\* Partial updates of WorkExperience and Education records that were created
\* valid, one request at a time.
\* ---------------------------------------------------------------------------

PatchExperienceCreates ==
    {[profile_name |-> "John", company |-> "Acme", start_date |-> 1, is_current |-> TRUE],
     [profile_name |-> "John", company |-> "Acme", start_date |-> 1, end_date |-> MaxDate]}

PatchEducationCreates ==
    {[profile |-> 1, institution |-> "MIT", degree |-> "BSc", start_date |-> 1],
     [profile |-> 1, institution |-> "MIT", degree |-> "BSc", start_date |-> 1,
      end_date |-> MaxDate]}

PatchExperienceUpdates == {[company |-> "Oxford"], [is_current |-> TRUE]}

PatchEducationUpdates == {[grade |-> "A"], [institution |-> "Oxford", degree |-> "MSc"]}

NextPatch ==
    \/ ProfileCreate("admin", [name |-> "John", email |-> "john@example.com"], 1)
    \/ \E r \in inflight : ProfileInsert(r)
    \/ \E d \in PatchExperienceCreates : ExperienceCreate("admin", d, 1)
    \/ \E r \in inflight : CreateResolve(r)
    \/ \E r \in inflight : ExperienceInsert(r)
    \/ \E d \in PatchEducationCreates : EducationCreate("admin", d, 1)
    \/ \E r \in inflight : EducationInsert(r)
    \/ \E id \in RecordIds, d \in PatchExperienceUpdates :
          ExperienceUpdate("admin", id, TRUE, d, 1)
    \/ \E id \in RecordIds, d \in PatchEducationUpdates :
          EducationUpdate("admin", id, TRUE, d, 1)

SpecPatch == Init /\ [][NextPatch]_vars

\* the record satisfies the date rules of its resource
ValidRecord(rec) ==
    /\ ~Misordered(rec.start_date, rec.end_date)
    /\ "is_current" \in DOMAIN rec => (rec.is_current <=> rec.end_date = NoDate)

\* C27: a PATCH by an admin that carries only a field unrelated to the dates
\* and is_current (company for WorkExperience, grade for Education) on a
\* valid record is accepted and changes that field only.
C27_UnrelatedPatchAccepted ==
    [][/\ \A rec \in experience :
             (/\ ValidRecord(rec)
              /\ ExperienceUpdate("admin", rec.id, TRUE, [company |-> "Oxford"], 1))
                => /\ last'.outcome = "OK"
                   /\ experience' = (experience \ {rec}) \cup {[rec EXCEPT !.company = "Oxford"]}
       /\ \A rec \in education :
             (/\ ValidRecord(rec)
              /\ EducationUpdate("admin", rec.id, TRUE, [grade |-> "A"], 1))
                => /\ last'.outcome = "OK"
                   /\ education' = (education \ {rec}) \cup {[rec EXCEPT !.grade = "A"]}]_vars

(***************************************************************************)
(* The platform figures of social_stats.                                   *)
(***************************************************************************)
CoverageSocialLinkCreates ==
    [profile_name : {"John", "Jane"}, link_type : LinkTypes, url : {"https://x"}]
CoverageSocialLinkPatches == [profile : ProfileIds] \cup [link_type : LinkTypes]

NextCoverage ==
    \/ \E d \in OwnerPayloads : ProfileCreate("admin", d, 1)
    \/ \E r \in inflight : ProfileInsert(r)
    \/ \E id \in ProfileIds : ProfileDelete("admin", id, 1)
    \/ ChildCreates + Cardinality({r \in inflight : r.res = "social"}) < MaxOwned
          /\ \E d \in CoverageSocialLinkCreates : SocialLinkCreate("admin", d, MaxInflight)
    \/ \E r \in inflight : CreateResolve(r)
    \/ \E r \in inflight : SocialLinkInsert(r)
    \/ \E id \in RecordIds, d \in CoverageSocialLinkPatches :
          SocialLinkUpdate("admin", id, TRUE, d, 1)
    \/ \E id \in RecordIds : SocialLinkDelete("admin", id, 1)
    \/ social_stats("anonymous", 1)

SpecCoverage == Init /\ [][NextCoverage]_vars

\* C28: in every social_stats response, for every link type t,
\* profiles_by_platform[t] equals link_type_distribution[t] and is at most
\* total_profiles, every platform_coverage value lies between 0 and 100
\* percent, and platform_coverage is empty when no profile exists.
C28_PlatformFigures ==
    (last.res = "social_stats" /\ last.outcome = "OK") =>
        /\ \A t \in LinkTypes :
              /\ last.stats.profiles_by_platform[t] = last.stats.link_type_distribution[t]
              /\ last.stats.profiles_by_platform[t] <= last.stats.total_profiles
        /\ \A t \in DOMAIN last.stats.platform_coverage :
              /\ last.stats.platform_coverage[t] >= 0
              /\ last.stats.platform_coverage[t] <= 1000
        /\ last.stats.total_profiles = 0 => DOMAIN last.stats.platform_coverage = {}
        /\ last.stats.total_profiles > 0 => DOMAIN last.stats.platform_coverage = LinkTypes

\* a response over two profiles, both with a github link: full coverage of
\* one platform and none of the other
C28_Witness ==
    /\ last.res = "social_stats" /\ last.outcome = "OK"
    /\ last.stats.total_profiles = 2
    /\ last.stats.link_type_distribution["github"] = 2
    /\ last.stats.platform_coverage["github"] = 1000
    /\ last.stats.platform_coverage["linkedin"] = 0

(***************************************************************************)
(* The list of SocialLink records and the summary projection of the two    *)
(* list views.                                                             *)
(***************************************************************************)
\* SocialLink.get_link_type_display(): the label of LINK_TYPES
get_link_type_display(link_type) ==
    CASE link_type = "github" -> "GitHub"
      [] link_type = "linkedin" -> "LinkedIn"
      [] OTHER -> link_type

\* SocialLinkSummarySerializer.Meta.fields
SocialLinkSummarySerializer_data(r) ==
    [id |-> r.id, profile_name |-> NameOfProfile(r.profile), link_type |-> r.link_type,
     link_type_display |-> get_link_type_display(r.link_type), url |-> r.url,
     display_name |-> r.display_name]

\* SocialLinkSerializer.Meta.fields
SocialLinkSerializer_data(r) ==
    [id |-> r.id, profile |-> r.profile, profile_name |-> NameOfProfile(r.profile),
     link_type |-> r.link_type, link_type_display |-> get_link_type_display(r.link_type),
     url |-> r.url, display_name |-> r.display_name]

\* SocialLinkListCreateView.get_serializer_class: decided by the method alone;
\* the serializer_class attribute that get_queryset sets is never read
SocialLink_get_serializer_class(method, q) ==
    IF method = "POST" THEN "SocialLinkCreateSerializer" ELSE "SocialLinkSerializer"

\* SocialLinkListCreateView.get_queryset: the filters
SocialLink_filter(q) ==
    {r \in links :
        /\ Get(q, "profile_name", "") # ""
              => IContains(NameOfProfile(r.profile), q.profile_name)
        /\ Get(q, "link_type", "") # "" => r.link_type = q.link_type
        /\ Get(q, "platform", "") # "" => IContains(r.link_type, q.platform)
        /\ Get(q, "search", "") # ""
              => \/ IContains(r.display_name, q.search)
                 \/ IContains(r.url, q.search)
                 \/ IContains(r.link_type, q.search)
                 \/ IContains(NameOfProfile(r.profile), q.search)}

SocialLink_to_representation(class, r) ==
    IF class = "SocialLinkSummarySerializer" THEN SocialLinkSummarySerializer_data(r)
    ELSE SocialLinkSerializer_data(r)

\* GET /social-links/?...  (SocialLink has no Meta.ordering)
SocialLinkList(caller, q, cap) ==
    /\ CanStart(cap)
    /\ UNCHANGED <<store, nextId, inflight>>
    /\ IF ~Profile_IsAdminUserOrReadOnly("GET", caller)
       THEN Respond("social_list", "GET", caller, "Forbidden", "permission_denied")
       ELSE \E order \in Unordered(SocialLink_filter(q)) :
               last' = ListResponse("social_list", caller, q,
                          [i \in DOMAIN order |->
                              SocialLink_to_representation(
                                  SocialLink_get_serializer_class("GET", q), order[i])])

SummarySkillCreates ==
    [profile_name : {"John"}, name : {"Python", "Go"}, category : {"Web"}, level : {"expert"}]
SummarySocialLinkCreates ==
    [profile_name : {"John"}, link_type : LinkTypes, url : {"https://x"}]
SummarySkillQueries == {<<>>, [summary |-> "true"], [summary |-> "True"], [skill_name |-> "py"]}
SummarySocialLinkQueries ==
    {<<>>, [summary |-> "true"], [summary |-> "false"], [link_type |-> "github"],
     [platform |-> "git"], [search |-> "jo"], [profile_name |-> "jo"]}

NextSummary ==
    \/ \E d \in OwnerPayloads : ProfileCreate("admin", d, 1)
    \/ \E r \in inflight : ProfileInsert(r)
    \/ \E r \in inflight : CreateResolve(r)
    \/ \E d \in SummarySkillCreates : SkillCreate("admin", d, 1)
    \/ \E r \in inflight : SkillInsert(r)
    \/ \E d \in SummarySocialLinkCreates : SocialLinkCreate("admin", d, 1)
    \/ \E r \in inflight : SocialLinkInsert(r)
    \/ \E q \in SummarySkillQueries : SkillList("anonymous", q, 1)
    \/ \E q \in SummarySocialLinkQueries : SocialLinkList("anonymous", q, 1)

SpecSummary == Init /\ [][NextSummary]_vars

SkillSummaryFields == {"id", "profile_name", "name", "level", "level_display", "category"}
SocialLinkSummaryFields ==
    {"id", "profile_name", "link_type", "link_type_display", "url", "display_name"}

\* C29: a GET of the Skill or SocialLink list with summary=true returns
\* every record with the summary fields only (no profile id), and without
\* summary=true returns every record with the full fields.
C29_SummaryProjection ==
    /\ (last.res = "skills_list" /\ last.outcome = "OK") =>
          \A i \in DOMAIN last.results :
              DOMAIN last.results[i] =
                  IF IsTrue(Get(last.query, "summary", ""))
                  THEN SkillSummaryFields
                  ELSE SkillSummaryFields \cup {"profile"}
    /\ (last.res = "social_list" /\ last.outcome = "OK") =>
          \A i \in DOMAIN last.results :
              DOMAIN last.results[i] =
                  IF IsTrue(Get(last.query, "summary", ""))
                  THEN SocialLinkSummaryFields
                  ELSE SocialLinkSummaryFields \cup {"profile"}

(***************************************************************************)
(* Deleting one child record.                                              *)
(***************************************************************************)
DeleteEducationCreates ==
    {[profile |-> 1, institution |-> "MIT", degree |-> "BSc", start_date |-> 1]}
DeleteExperienceCreates ==
    [profile_name : {"John", "Jane"}, company : {"Acme"}, start_date : {1},
     is_current : {TRUE}]
DeleteSkillCreates == {[profile_name |-> "Jane", name |-> "Python"]}
DeleteSocialLinkCreates ==
    {[profile_name |-> "John", link_type |-> "github", url |-> "https://x"]}
DeleteProjectCreates == {[profile_name |-> "Jane", title |-> "API", technologies |-> <<"a">>]}

\* child records created so far, at most one more than MaxOwned
DeleteQuota == ChildCreates <= MaxOwned

NextDelete ==
    \/ \E d \in OwnerPayloads : ProfileCreate("admin", d, 1)
    \/ \E r \in inflight : ProfileInsert(r)
    \/ \E r \in inflight : CreateResolve(r)
    \/ DeleteQuota /\ \E d \in DeleteEducationCreates : EducationCreate("admin", d, 1)
    \/ \E r \in inflight : EducationInsert(r)
    \/ DeleteQuota /\ \E d \in DeleteExperienceCreates : ExperienceCreate("admin", d, 1)
    \/ \E r \in inflight : ExperienceInsert(r)
    \/ DeleteQuota /\ \E d \in DeleteSkillCreates : SkillCreate("admin", d, 1)
    \/ \E r \in inflight : SkillInsert(r)
    \/ DeleteQuota /\ \E d \in DeleteSocialLinkCreates : SocialLinkCreate("admin", d, 1)
    \/ \E r \in inflight : SocialLinkInsert(r)
    \/ DeleteQuota /\ \E d \in DeleteProjectCreates : ProjectCreate("admin", d, 1)
    \/ \E r \in inflight : ProjectInsert(r)
    \/ \E id \in RecordIds : EducationDelete("admin", id, 1)
    \/ \E id \in RecordIds : ExperienceDelete("admin", id, 1)
    \/ \E id \in RecordIds : SkillDelete("admin", id, 1)
    \/ \E id \in RecordIds : SocialLinkDelete("admin", id, 1)
    \/ \E id \in RecordIds : ProjectDelete("admin", id, 1)

SpecDelete == Init /\ [][NextDelete]_vars

\* the step removes the record id of table and nothing else of it
RemovesOnly(table, after, id) ==
    HasRow(table, id) => /\ after = table \ {Row(table, id)}
                         /\ Cardinality(after) = Cardinality(table) - 1

\* C30: an admin DELETE of one Education, WorkExperience, Skill, Project or
\* SocialLink record removes exactly that record; the profiles, the other
\* records of its profile and the records of other profiles are unchanged.
C30_DeleteRemovesOneRecord ==
    [][\A id \in RecordIds :
          /\ EducationDelete("admin", id, 1) =>
                /\ RemovesOnly(education, education', id)
                /\ UNCHANGED <<profiles, experience, skills, projects, links>>
          /\ ExperienceDelete("admin", id, 1) =>
                /\ RemovesOnly(experience, experience', id)
                /\ UNCHANGED <<profiles, education, skills, projects, links>>
          /\ SkillDelete("admin", id, 1) =>
                /\ RemovesOnly(skills, skills', id)
                /\ UNCHANGED <<profiles, education, experience, projects, links>>
          /\ ProjectDelete("admin", id, 1) =>
                /\ RemovesOnly(projects, projects', id)
                /\ UNCHANGED <<profiles, education, experience, skills, links>>
          /\ SocialLinkDelete("admin", id, 1) =>
                /\ RemovesOnly(links, links', id)
                /\ UNCHANGED <<profiles, education, experience, skills, projects>>]_vars

\* the profiles owning a record of one of the five child tables
Owners ==
    {r.profile : r \in education} \cup {r.profile : r \in experience}
    \cup {r.profile : r \in skills} \cup {r.profile : r \in projects}
    \cup {r.profile : r \in links}

\* after a delete of an experience record, records of both profiles are
\* still stored, one of them an experience record
C30_Witness ==
    /\ last.res = "experience" /\ last.method = "DELETE" /\ last.outcome = "NoContent"
    /\ experience # {}
    /\ Cardinality(Owners) = 2
====
